---- MODULE Spec2Model ----
(***************************************************************************)
(* Execution engine of the sales-agent framework:                          *)
(*   - BaseAgent   (unit-of-work executor: validation, timeout race,       *)
(*                  retry loop with backoff, error normalization, events)  *)
(*   - AgentWorkflow (step sequencer)                                      *)
(* Every await of the TypeScript source is a point where another task may  *)
(* run; one action of the model is one synchronous segment between awaits. *)
(***************************************************************************)
EXTENDS Integers, Sequences, FiniteSets, TLC

(***************************************************************************)
(* Bounds of the model                                                     *)
(***************************************************************************)
MaxAttemptsBound == 3
MaxInits == 1
MaxK == 4
MaxEmissions == 2
MaxRegistrations == 2

(***************************************************************************)
(* Values                                                                  *)
(***************************************************************************)
\* retry.maxDelay is optional: the value of an absent field
Undefined == -1

\* a thrown JavaScript value: kind is its class, truthy its truthiness,
\* message its .message (Error) and str its String(value)
ErrorValue(id, kind, code, message, str, truthy, details) ==
    [id |-> id, kind |-> kind, code |-> code, message |-> message,
     str |-> str, truthy |-> truthy, details |-> details]

AgentError(message, code, details) ==
    ErrorValue(code, "AgentError", code, message, message, TRUE, details)

NoError == ErrorValue("none", "none", "none", "none", "undefined", FALSE, "none")

\* values a work function, a handler or a listener can throw
CustomAgentError == AgentError("Custom error message", "CUSTOM_ERROR_CODE", "cause")
PlainError  == ErrorValue("plain", "Error", "none", "boom", "Error: boom", TRUE, "none")
ThrownString == ErrorValue("string", "value", "none", "none", "oops", TRUE, "none")
ThrownZero  == ErrorValue("zero", "value", "none", "none", "0", FALSE, "none")
ListenerError == ErrorValue("listener", "Error", "none", "listener failed",
                            "Error: listener failed", TRUE, "none")
InitError == ErrorValue("init", "Error", "none", "init failed",
                        "Error: init failed", TRUE, "none")

\* classes whose instances are instanceof Error without being an AgentError
ErrorClasses == {"Error", "CRMError"}

WorkErrors == {CustomAgentError, PlainError, ThrownString, ThrownZero}
WorkOutputs == {"output"}
Inputs == {"null", "undefined", "lead"}

AgentEventTypes == {"agent:start", "agent:complete", "agent:error"}
BackoffKinds == {"none", "linear", "exponential"}

Calls == {1, 2}

\* calls of CRMAgent.initialize and CRMAgent.close: the caller's initialize()
\* (0), the initialize() of an execute call (its id), the caller's close()
ExplicitInit == 0
CloseTask == 3
CrmTasks == {ExplicitInit, CloseTask} \cup Calls

NoResult == [kind |-> "none", success |-> FALSE, data |-> "none", error |-> NoError]
SuccessResult(data) ==
    [kind |-> "result", success |-> TRUE, data |-> data, error |-> NoError]
FailureResult(error) ==
    [kind |-> "result", success |-> FALSE, data |-> "none", error |-> error]

(***************************************************************************)
(* State                                                                   *)
(***************************************************************************)
VARIABLES
    \* BaseAgent instance
    initialized,    \* this.initialized
    retry,          \* this.config.retry
    agentThrowOn,   \* event types on which a registered listener throws
    agentEvents,    \* events emitted so far: [type, call] (call 0: the caller)
    inits,          \* runs of BaseAgent.initialize
    callers,        \* the execute calls the environment makes
    \* one BaseAgent.execute call (per call id)
    pc,             \* idle | awaitInit | racing | returned | rejected
    input,          \* the input argument
    attempt,        \* loop variable of executeWithRetry
    invocations,    \* calls of this.run made
    outcomes,       \* what each call of this.run did: "ok" or the value thrown
    lastError,      \* lastError of executeWithRetry
    loop,           \* none | running | sleeping | resolved | rejected
    loopResult,     \* value or error the retry loop settled with
    sleeps,         \* delays passed to this.sleep, in order
    timer,          \* unset | armed | fired
    order,          \* the order in which the loop and the timer settled
    caught,         \* the value caught by the catch block of execute
    result,         \* the AgentResult returned
    rejection,      \* the value execute rejected with
    contextArg,     \* the context argument (a partial AgentContext)
    executionContext, \* the executionContext handed to the work function
    \* what the callers hold
    configCopy,     \* an object returned by BaseAgent.getConfig
    wfConfigCopy,   \* an object returned by AgentWorkflow.getConfig
    contextCopy,    \* an object returned by AgentWorkflow.getContext
    \* the 'event' channel of an emitter (BaseAgent and AgentWorkflow alike)
    listeners,      \* the listener array of the channel, in registration order
    emitted,        \* emitEvent calls made
    deliveries,     \* listener calls made: [emission, listener]
    \* CRMAgent and its provider
    providerInitialized, \* provider.initialized
    crmPc,          \* initialize()/close() calls: none | provider | queued | done | failed
    pending,        \* continuations queued as microtasks, in order
    \* calculateRetryDelay taken alone
    delayIn, delayOut,
    \* AgentWorkflow instance
    steps,          \* this.steps: [name, condition, onError] (has a condition / a hook)
    onError,        \* this.config.onError
    context,        \* this.context (NullContext: null)
    wfThrowOn,      \* event types on which a registered listener throws
    wfEvents,       \* events emitted so far: [type, run, step]
    runners,        \* the execute calls the environment makes
    stepsUsed,      \* an execute call has been made on the array this.steps
    \* one AgentWorkflow.execute call (per run id)
    wfPc,           \* idle | racing | returned | rejected
    wfInput,        \* the input argument
    stepResults,    \* the stepResults array of the call
    phase,          \* step loop: none | condition | handler | hook | rollback | resolved | rejected
    loopSteps,      \* the array the for loop iterates (this.steps when it began)
    idx,            \* position of the for loop in that array
    stepError,      \* stepError of the failing executeStep
    loopError,      \* the error the step loop rejected with
    wfTimer,        \* unset | armed | fired
    wfOrder,        \* the order in which the step loop and the timer settled
    wfCalls,        \* calls the step loop made: [fn, step, data passed, what it did]
    wfResult,       \* the WorkflowResult returned (its steps are stepResults)
    wfRejection     \* the value execute rejected with

agentVars == <<initialized, retry, agentThrowOn, agentEvents, inits, callers>>
callVars == <<pc, input, attempt, invocations, outcomes, lastError, loop,
              loopResult, sleeps, timer, order, caught, result, rejection,
              contextArg, executionContext>>
channelVars == <<listeners, emitted, deliveries>>
crmVars == <<providerInitialized, crmPc, pending>>
apiVars == <<configCopy, wfConfigCopy, contextCopy, channelVars, crmVars>>
delayVars == <<delayIn, delayOut>>
wfVars == <<steps, onError, context, wfThrowOn, wfEvents, runners, stepsUsed>>
runVars == <<wfPc, wfInput, stepResults, phase, loopSteps, idx, stepError, loopError, wfTimer,
             wfOrder, wfCalls, wfResult, wfRejection>>
baseVars == <<agentVars, callVars, delayVars, apiVars>>
vars == <<agentVars, callVars, delayVars, wfVars, runVars, apiVars>>

(***************************************************************************)
(* BaseAgent: pure helpers                                                 *)
(***************************************************************************)
\* Math.pow(2, n) for the n >= 0 of an attempt number >= 1
Pow2(n) == IF n <= 0 THEN 1 ELSE 2 ^ n

Min(a, b) == IF a <= b THEN a ELSE b

\* JavaScript truthiness of an optional number
TruthyNumber(n) == n # Undefined /\ n # 0

\* calculateRetryDelay(attempt, retry)
calculateRetryDelay(att, r) ==
    IF r.backoff = "exponential"
    THEN LET delay == r.delay * Pow2(att - 1)
         IN  Min(delay, IF TruthyNumber(r.maxDelay) THEN r.maxDelay ELSE delay)
    ELSE r.delay

\* a validateInput that tests null alone
validateInputNullOnly(in) == in = "null"

\* validateInput(input): TRUE when it throws
validateInputThrows(in) == in = "null" \/ in = "undefined"

InvalidInputError == AgentError("Input cannot be null or undefined", "INVALID_INPUT", "none")
TimeoutError == AgentError("Execution timeout", "TIMEOUT", "none")
ExecutionFailedError == AgentError("Execution failed", "EXECUTION_FAILED", "none")

\* a normalizeError without the instanceof AgentError branch
normalizeErrorAlwaysWraps(error) ==
    AgentError(error.message, "UNKNOWN_ERROR", error.id)

\* normalizeError(error)
normalizeError(error) ==
    IF error.kind = "AgentError" THEN error
    ELSE IF error.kind \in ErrorClasses
         THEN AgentError(error.message, "UNKNOWN_ERROR", error.id)
         ELSE AgentError(error.str, "UNKNOWN_ERROR", error.id)

\* a retry loop that runs one iteration too many; one that sleeps after every failure
LoopContinuesOnceMore(att, r) == att <= r.maxAttempts + 1
SleepsAfterEveryFailure(att, r) == att <= r.maxAttempts

\* executeWithRetry: the for condition, the sleep condition, the final throw
LoopContinues(att, r) == att <= r.maxAttempts
SleepsBeforeRetry(att, r) == att < r.maxAttempts
ExhaustionError(last) == IF last.truthy THEN last ELSE ExecutionFailedError

\* emit of eventemitter3: a throwing listener throws out of emitEvent
EmitThrows(type) == type \in agentThrowOn
Event(type, c) == [type |-> type, call |-> c]

(***************************************************************************)
(* BaseAgent: configuration                                                *)
(***************************************************************************)
RetryConfig(maxAttempts, delay, backoff, maxDelay) ==
    [maxAttempts |-> maxAttempts, delay |-> delay, backoff |-> backoff,
     maxDelay |-> maxDelay]

\* the constructor's default: { maxAttempts: 3, delay: 1000, backoff: 'exponential' }
DefaultRetry == RetryConfig(3, 1000, "exponential", Undefined)

\* retry configurations a caller passes to the constructor (maxAttempts >= 1)
RetryConfigs ==
    {DefaultRetry} \cup
    {RetryConfig(m, 100, b, md) :
        m \in 1..MaxAttemptsBound, b \in BackoffKinds, md \in {Undefined, 150}}

(***************************************************************************)
(* BaseAgent.execute: the code after the awaited race, as a value          *)
(***************************************************************************)
OkOutcome(v) == [ok |-> TRUE, value |-> v, error |-> NoError]
ThrowOutcome(e) == [ok |-> FALSE, value |-> "none", error |-> e]

Settled(data, error) == [data |-> data, error |-> error]
NotSettled == Settled("none", NoError)

\* the catch block of execute: normalize, emit agent:error, return the result
CatchBlock(c, error) ==
    IF EmitThrows("agent:error")
    THEN [emits |-> <<Event("agent:error", c)>>, pc |-> "rejected",
          result |-> NoResult, caught |-> error, rejection |-> ListenerError]
    ELSE [emits |-> <<Event("agent:error", c)>>, pc |-> "returned",
          result |-> FailureResult(normalizeError(error)), caught |-> error,
          rejection |-> NoError]

\* the end of the try block of execute: emit agent:complete, return the result
TryBlockEnd(c, data) ==
    IF EmitThrows("agent:complete")
    THEN LET t == CatchBlock(c, ListenerError)
         IN  [t EXCEPT !.emits = <<Event("agent:complete", c)>> \o t.emits]
    ELSE [emits |-> <<Event("agent:complete", c)>>, pc |-> "returned",
          result |-> SuccessResult(data), caught |-> NoError, rejection |-> NoError]

Finish(c, t) ==
    /\ agentEvents' = agentEvents \o t.emits
    /\ pc' = [pc EXCEPT ![c] = t.pc]
    /\ result' = [result EXCEPT ![c] = t.result]
    /\ caught' = [caught EXCEPT ![c] = t.caught]
    /\ rejection' = [rejection EXCEPT ![c] = t.rejection]

\* Promise.race: the promise that settled first decides
RaceWinner(o) == Head(o)

\* executeWithRetry at the top of the for loop with attempt = att
LoopEnter(c, att, last) ==
    IF LoopContinues(att, retry)
    THEN /\ attempt' = [attempt EXCEPT ![c] = att]
         /\ invocations' = [invocations EXCEPT ![c] = @ + 1]
         /\ loop' = [loop EXCEPT ![c] = "running"]
         /\ UNCHANGED <<loopResult, order>>
    ELSE /\ attempt' = [attempt EXCEPT ![c] = att]
         /\ loop' = [loop EXCEPT ![c] = "rejected"]
         /\ loopResult' = [loopResult EXCEPT ![c] = Settled("none", ExhaustionError(last))]
         /\ order' = [order EXCEPT ![c] = Append(@, "work")]
         /\ UNCHANGED invocations

\* the context argument of execute: a partial AgentContext, or nothing
ContextArg(id, metadata, history) == [id |-> id, metadata |-> metadata, history |-> history]
NoHistory == <<"undefined">>
NoContextArg == ContextArg("undefined", "undefined", NoHistory)
ContextArgs ==
    {NoContextArg,
     ContextArg("old", "meta", NoHistory),
     ContextArg("undefined", "undefined", <<>>),
     ContextArg("old", "meta", <<"past">>)}

NoContext == [id |-> 0, data |-> "none", metadata |-> "none", history |-> <<>>]

\* the executionContext that execute builds; an array is truthy, empty or not
AgentContext(c, in, ctx) ==
    [id |-> c,
     data |-> in,
     metadata |-> IF ctx.metadata = "undefined" THEN "empty" ELSE ctx.metadata,
     history |-> IF ctx.history = NoHistory THEN <<>> ELSE ctx.history]

\* execute from the executionContext to the await of the race
ExecuteBody(c, in, ctx) ==
    /\ executionContext' = [executionContext EXCEPT ![c] = AgentContext(c, in, ctx)]
    /\ IF validateInputThrows(in)
       THEN /\ Finish(c, CatchBlock(c, InvalidInputError))
            /\ UNCHANGED <<attempt, invocations, loop, loopResult, order, timer>>
       ELSE /\ LoopEnter(c, 1, NoError)
            /\ timer' = [timer EXCEPT ![c] = "armed"]
            /\ pc' = [pc EXCEPT ![c] = "racing"]
            /\ UNCHANGED <<agentEvents, result, caught, rejection>>

(***************************************************************************)
(* BaseAgent: actions                                                      *)
(***************************************************************************)
\* the caller awaits agent.initialize()
Initialize ==
    /\ inits < MaxInits
    /\ initialized' = TRUE
    /\ inits' = inits + 1
    /\ agentEvents' = Append(agentEvents, Event("agent:start", 0))
    /\ UNCHANGED <<retry, agentThrowOn, callers, callVars, delayVars, wfVars, runVars, apiVars>>

\* the caller awaits agent.close()
Close ==
    /\ initialized \/ agentThrowOn # {}
    /\ initialized' = FALSE
    /\ agentThrowOn' = {}
    /\ UNCHANGED <<retry, agentEvents, inits, callers, callVars, delayVars, wfVars, runVars, apiVars>>

\* initialize() that marks the agent initialized without emitting agent:start
LazyInitializeSilently(c, ok) ==
    IF ok
    THEN /\ initialized' = TRUE
         /\ inits' = inits + 1
         /\ pc' = [pc EXCEPT ![c] = "awaitInit"]
         /\ UNCHANGED <<agentEvents, rejection>>
    ELSE /\ pc' = [pc EXCEPT ![c] = "rejected"]
         /\ rejection' = [rejection EXCEPT ![c] = InitError]
         /\ UNCHANGED <<initialized, inits, agentEvents>>

\* initialize() as execute awaits it; ok = FALSE: an overriding initialize()
\* throws before it reaches the code of BaseAgent.initialize
LazyInitialize(c, ok) ==
    IF ok
    THEN /\ initialized' = TRUE
         /\ inits' = inits + 1
         /\ agentEvents' = Append(agentEvents, Event("agent:start", c))
         /\ IF EmitThrows("agent:start")
            THEN /\ pc' = [pc EXCEPT ![c] = "rejected"]
                 /\ rejection' = [rejection EXCEPT ![c] = ListenerError]
            ELSE /\ pc' = [pc EXCEPT ![c] = "awaitInit"]
                 /\ UNCHANGED rejection
    ELSE /\ pc' = [pc EXCEPT ![c] = "rejected"]
         /\ rejection' = [rejection EXCEPT ![c] = InitError]
         /\ UNCHANGED <<initialized, inits, agentEvents>>

\* execute(input, context) up to its first await
ExecuteWithContext(c, in, ctx) ==
    /\ c \in callers
    /\ pc[c] = "idle"
    /\ input' = [input EXCEPT ![c] = in]
    /\ contextArg' = [contextArg EXCEPT ![c] = ctx]
    /\ \/ /\ ~initialized
          /\ \E ok \in BOOLEAN : LazyInitialize(c, ok)
          /\ UNCHANGED <<attempt, invocations, loop, loopResult, order, timer,
                         result, caught, executionContext>>
       \/ /\ initialized
          /\ ExecuteBody(c, in, ctx)
          /\ UNCHANGED <<initialized, inits>>
    /\ UNCHANGED <<retry, agentThrowOn, callers, outcomes, lastError, sleeps, delayVars, wfVars, runVars, apiVars>>

\* execute(input), no context passed
Execute(c, in) == ExecuteWithContext(c, in, NoContextArg)

\* execute resumes after await this.initialize()
ResumeAfterInit(c) ==
    /\ pc[c] = "awaitInit"
    /\ ExecuteBody(c, input[c], contextArg[c])
    /\ UNCHANGED <<initialized, retry, agentThrowOn, inits, callers>>
    /\ UNCHANGED <<input, contextArg, outcomes, lastError, sleeps, delayVars, wfVars, runVars, apiVars>>

\* the promise of this.run(context) settles: it returns one of outputs, or
\* throws one of errors
RunSettles(c, outputs, errors) ==
    /\ loop[c] = "running"
    /\ \/ \E v \in outputs :
            /\ outcomes' = [outcomes EXCEPT ![c] = Append(@, OkOutcome(v))]
            /\ loop' = [loop EXCEPT ![c] = "resolved"]
            /\ loopResult' = [loopResult EXCEPT ![c] = Settled(v, NoError)]
            /\ order' = [order EXCEPT ![c] = Append(@, "work")]
            /\ UNCHANGED <<attempt, invocations, lastError, sleeps>>
       \/ \E e \in errors :
            /\ outcomes' = [outcomes EXCEPT ![c] = Append(@, ThrowOutcome(e))]
            /\ lastError' = [lastError EXCEPT ![c] = e]
            /\ IF SleepsBeforeRetry(attempt[c], retry)
               THEN /\ sleeps' = [sleeps EXCEPT ![c] =
                                    Append(@, calculateRetryDelay(attempt[c], retry))]
                    /\ loop' = [loop EXCEPT ![c] = "sleeping"]
                    /\ UNCHANGED <<attempt, invocations, loopResult, order>>
               ELSE /\ LoopEnter(c, attempt[c] + 1, e)
                    /\ UNCHANGED sleeps
    /\ UNCHANGED <<agentVars, pc, input, contextArg, executionContext, timer, caught, result, rejection, delayVars, wfVars, runVars, apiVars>>

\* the work function of an abstract agent returns, or throws any value
WorkSettles(c) == RunSettles(c, WorkOutputs, WorkErrors)

\* the timer of this.sleep(delay) fires: the loop goes to its next iteration
SleepEnds(c) ==
    /\ loop[c] = "sleeping"
    /\ LoopEnter(c, attempt[c] + 1, lastError[c])
    /\ UNCHANGED <<agentVars, pc, input, contextArg, executionContext, outcomes, lastError, sleeps, timer,
                   caught, result, rejection, delayVars, wfVars, runVars, apiVars>>

\* a timer that cancels the retry loop when it fires
TimerFiresCancelling(c) ==
    /\ timer[c] = "armed"
    /\ timer' = [timer EXCEPT ![c] = "fired"]
    /\ order' = [order EXCEPT ![c] = Append(@, "timer")]
    /\ loop' = [loop EXCEPT ![c] = IF @ \in {"resolved", "rejected"} THEN @ ELSE "none"]
    /\ UNCHANGED <<agentVars, pc, input, contextArg, executionContext, attempt, invocations, outcomes, lastError,
                   loopResult, sleeps, caught, result, rejection, delayVars, wfVars, runVars, apiVars>>

\* one timer for the whole agent: when it fires, every race still armed loses
TimerFiresShared(c) ==
    /\ timer[c] = "armed"
    /\ timer' = [d \in Calls |-> IF timer[d] = "armed" THEN "fired" ELSE timer[d]]
    /\ order' = [d \in Calls |-> IF timer[d] = "armed" THEN Append(order[d], "timer")
                                 ELSE order[d]]
    /\ UNCHANGED <<agentVars, pc, input, contextArg, executionContext, attempt, invocations, outcomes, lastError,
                   loop, loopResult, sleeps, caught, result, rejection, delayVars, wfVars, runVars, apiVars>>

\* the setTimeout of executeWithTimeout fires (it is never cleared)
TimerFires(c) ==
    /\ timer[c] = "armed"
    /\ timer' = [timer EXCEPT ![c] = "fired"]
    /\ order' = [order EXCEPT ![c] = Append(@, "timer")]
    /\ UNCHANGED <<agentVars, pc, input, contextArg, executionContext, attempt, invocations, outcomes, lastError,
                   loop, loopResult, sleeps, caught, result, rejection, delayVars, wfVars, runVars, apiVars>>

\* execute resumes after the awaited Promise.race has settled
ResumeAfterRace(c) ==
    /\ pc[c] = "racing"
    /\ order[c] # <<>>
    /\ IF RaceWinner(order[c]) = "timer"
       THEN Finish(c, CatchBlock(c, TimeoutError))
       ELSE IF loop[c] = "resolved"
            THEN Finish(c, TryBlockEnd(c, loopResult[c].data))
            ELSE Finish(c, CatchBlock(c, loopResult[c].error))
    /\ UNCHANGED <<initialized, retry, agentThrowOn, inits, callers>>
    /\ UNCHANGED <<input, contextArg, executionContext, attempt, invocations, outcomes, lastError, loop,
                   loopResult, sleeps, timer, order, delayVars, wfVars, runVars, apiVars>>

(***************************************************************************)
(* calculateRetryDelay taken alone                                         *)
(***************************************************************************)
DelayIdle == [attempt |-> 0, retry |-> DefaultRetry]

DelayInputs ==
    [attempt : 1..MaxK,
     retry : {RetryConfig(1, d, b, md) :
                 d \in {0, 1, 100, 2000}, b \in BackoffKinds,
                 md \in {Undefined, 0, 150, 30000}}]

ComputeDelay ==
    /\ delayIn # DelayIdle
    /\ delayOut = Undefined
    /\ delayOut' = calculateRetryDelay(delayIn.attempt, delayIn.retry)
    /\ UNCHANGED <<delayIn, agentVars, callVars, wfVars, runVars, apiVars>>

(***************************************************************************)
(* AgentWorkflow: values                                                   *)
(***************************************************************************)
MaxSteps == 2

Runs == {1, 2}
Strategies == {"stop", "continue", "rollback"}
WorkflowEventTypes == {"workflow:start", "workflow:complete", "workflow:error",
                       "step:start", "step:complete", "step:error"}
WfInputs == {"lead"}
\* what a handler returns ("null": null or undefined; "false": a falsy value
\* that is neither)
HandlerReturns == {"data", "false", "null"}

StepName(i) == <<"step", i>>
WorkflowStep(name, condition, hook) ==
    [name |-> name, condition |-> condition, onError |-> hook]

NullContext == [id |-> 0, data |-> "none", history |-> <<>>]
StepResult(name, success, data, error) ==
    [step |-> name, success |-> success, data |-> data, error |-> error]

WfEvent(type, r, step) == [type |-> type, run |-> r, step |-> step]
NoStep == <<"step", 0>>

WorkflowTimeoutError == AgentError("Workflow timeout", "TIMEOUT", "none")
\* this.context!.history on a context that is null
NullContextError == ErrorValue("typeerror", "Error", "none",
                               "Cannot read properties of null",
                               "TypeError: Cannot read properties of null", TRUE, "none")

\* error instanceof Error ? error : new Error(String(error))
ToError(error) ==
    IF error.kind \in {"Error", "AgentError"} THEN error
    ELSE ErrorValue("wrapped", "Error", "none", error.str, error.str, TRUE, error.id)

WfEmitThrows(type) == type \in wfThrowOn

WfNoResult == [kind |-> "none", success |-> FALSE, data |-> "none", error |-> NoError]
WfSuccess(data) == [kind |-> "result", success |-> TRUE, data |-> data, error |-> NoError]
WfFailure(error) == [kind |-> "result", success |-> FALSE, data |-> "none", error |-> error]

(***************************************************************************)
(* AgentWorkflow: the step loop, one synchronous segment at a time.  A     *)
(* segment works on m, the part of the state it may change:                *)
(*   ev (wfEvents), ctx (this.context), sr (stepResults), phase, idx,      *)
(*   err (stepError), lerr (loopError), calls (wfCalls), steps (the array  *)
(*   the loop iterates), and reads strategy (this.config.onError)          *)
(***************************************************************************)
Machine(r) ==
    [ev |-> wfEvents, ctx |-> context, sr |-> stepResults[r], phase |-> phase[r],
     idx |-> idx[r], err |-> stepError[r], lerr |-> loopError[r],
     calls |-> wfCalls[r], strategy |-> onError, steps |-> loopSteps[r]]

Emitted(m, type, r, step) == [m EXCEPT !.ev = Append(@, WfEvent(type, r, step))]

LoopRejects(m, error) == [m EXCEPT !.phase = "rejected", !.lerr = error]

\* what an awaited condition, handler, hook or rollback does when it settles
Returns(value) == [out |-> "returned", value |-> value, error |-> NoError]
Throws(error) == [out |-> "threw", value |-> "none", error |-> error]
\* a condition that throws throws an Error; a handler that throws throws a
\* value that is not an Error, which executeStep wraps
ConditionOutcomes == {Returns("true"), Returns("false"), Throws(PlainError)}
HandlerOutcomes == {Returns(v) : v \in HandlerReturns} \cup {Throws(ThrownString)}
HookOutcomes == {Returns("null"), Throws(PlainError)}
RollbackOutcomes == {Returns("null")}

\* the loop calls fn (condition, handler, hook, rollback) and awaits it
Call(fn, i, data) ==
    [fn |-> fn, step |-> i, data |-> data, out |-> "pending", value |-> "none",
     error |-> NoError]
Invoked(m, fn) ==
    [m EXCEPT !.phase = fn, !.calls = Append(@, Call(fn, m.idx, m.ctx.data))]
\* the loop goes on while the call it made is still running
LoggedUnsettled(m, o) == m

\* the awaited call has settled with o
Logged(m, o) ==
    [m EXCEPT !.calls[Len(m.calls)] =
                  [@ EXCEPT !.out = o.out, !.value = o.value, !.error = o.error]]

\* the for loop reaches this.steps[i]: executeStep up to its first await
BeginStep(r, m, i) ==
    IF i > Len(m.steps)
    THEN [m EXCEPT !.phase = "resolved", !.idx = i]
    ELSE LET m1 == [Emitted(m, "step:start", r, m.steps[i].name) EXCEPT !.idx = i]
         IN  IF WfEmitThrows("step:start")
             THEN LoopRejects(m1, ListenerError)
             ELSE Invoked(m1, IF m.steps[i].condition THEN "condition" ELSE "handler")

\* rollback puts the payload of the first call back
rollbackRestoresData(m) == Invoked([m EXCEPT !.ctx.data = m.calls[1].data], "rollback")

\* rollback(_steps): warns, undoes nothing
rollback(m) == Invoked(m, "rollback")

\* each run pushes to the history of a context of its own: the result of a
\* run whose context was replaced is not pushed to the newer context
RecordResultOwnContext(r, m, stepResult) ==
    LET m1 == [m EXCEPT !.sr = Append(@, stepResult)]
        m2 == IF m.ctx.id = r THEN [m1 EXCEPT !.ctx.history = Append(@, stepResult)]
              ELSE m1
    IN  IF ~stepResult.success
        THEN IF m.strategy = "stop"
             THEN LoopRejects(m2, stepResult.error)
             ELSE IF m.strategy = "rollback"
                  THEN rollback([m2 EXCEPT !.err = stepResult.error])
                  ELSE BeginStep(r, m2, m2.idx + 1)
        ELSE BeginStep(r, m2, m2.idx + 1)

\* the for loop body after executeStep has returned stepResult
RecordResult(r, m, stepResult) ==
    LET m1 == [m EXCEPT !.sr = Append(@, stepResult)]
    IN  IF m1.ctx = NullContext
        THEN LoopRejects(m1, NullContextError)
        ELSE LET m2 == [m1 EXCEPT !.ctx.history = Append(@, stepResult)]
             IN  IF ~stepResult.success
                 THEN IF m.strategy = "stop"
                      THEN LoopRejects(m2, stepResult.error)
                      ELSE IF m.strategy = "rollback"
                           THEN rollback([m2 EXCEPT !.err = stepResult.error])
                           ELSE BeginStep(r, m2, m2.idx + 1)
                 ELSE BeginStep(r, m2, m2.idx + 1)

\* the catch block of executeStep after the step's onError hook
StepFailed(r, m) ==
    LET name == m.steps[m.idx].name
        m1 == Emitted(m, "step:error", r, name)
    IN  IF WfEmitThrows("step:error")
        THEN LoopRejects(m1, ListenerError)
        ELSE RecordResult(r, m1, StepResult(name, FALSE, "none", m.err))

\* the catch block of executeStep up to the await of the step's onError hook
StepCatch(r, m, error) ==
    LET m1 == [m EXCEPT !.err = ToError(error)]
    IN  IF m.steps[m.idx].onError
        THEN Invoked(m1, "hook")
        ELSE StepFailed(r, m1)

\* if (result)
UpdatesDataIfTruthy(value) == value \notin {"null", "false"}

\* if (result !== null && result !== undefined)
UpdatesData(value) == value # "null"

\* executeStep after the handler has returned result
HandlerReturned(r, m, value) ==
    LET name == m.steps[m.idx].name
        m1 == IF UpdatesData(value) THEN [m EXCEPT !.ctx.data = value] ELSE m
        m2 == Emitted(m1, "step:complete", r, name)
    IN  IF m.ctx = NullContext /\ UpdatesData(value)
        THEN StepCatch(r, m, NullContextError)
        ELSE IF WfEmitThrows("step:complete")
             THEN StepCatch(r, m2, ListenerError)
             ELSE RecordResult(r, m2, StepResult(name, TRUE, value, NoError))

\* the skip result falls through to the update of context.data
StepSkippedWritesData(r, m) ==
    RecordResult(r, [m EXCEPT !.ctx.data = "null"],
                 StepResult(m.steps[m.idx].name, TRUE, "null", NoError))

\* the skip result is returned but never pushed
StepSkippedUnrecorded(r, m) == BeginStep(r, m, m.idx + 1)

\* executeStep when the condition is false: the skip result, no event
StepSkipped(r, m) ==
    RecordResult(r, m, StepResult(m.steps[m.idx].name, TRUE, "null", NoError))

\* the step loop resumes when the call it awaits has settled with o
Settle(r, m, o) ==
    LET m1 == Logged(m, o)
    IN  IF m.phase = "condition"
        THEN IF o.out = "threw" THEN StepCatch(r, m1, o.error)
             ELSE IF o.value = "true" THEN Invoked(m1, "handler")
             ELSE StepSkipped(r, m1)
        ELSE IF m.phase = "handler"
        THEN IF o.out = "threw" THEN StepCatch(r, m1, o.error)
             ELSE HandlerReturned(r, m1, o.value)
        ELSE IF m.phase = "hook"
        THEN StepFailed(r, m1)
        ELSE LoopRejects(m1, m1.err)

\* execute(input) up to the await of the race
Begin(r, m, in) ==
    LET m0 == [m EXCEPT !.ctx = [id |-> r, data |-> in, history |-> <<>>],
                        !.sr = <<>>]
        m1 == Emitted(m0, "workflow:start", r, NoStep)
    IN  IF WfEmitThrows("workflow:start") THEN m1
        ELSE BeginStep(r, [m1 EXCEPT !.steps = steps], 1)

\* execute(input) of run r up to the await of the race, were the strategy s
Started(r, s) ==
    Begin(r, [ev |-> <<>>, ctx |-> NullContext, sr |-> <<>>, phase |-> "none",
              idx |-> 0, err |-> NoError, lerr |-> NoError, calls |-> <<>>,
              strategy |-> s, steps |-> <<>>], wfInput[r])

RECURSIVE Replay(_, _, _, _)
\* the step loop from m on, its awaited conditions, handlers and hooks
\* settling as the calls of log did, from the k-th on; rollback, where the
\* loop calls it, resolves at once
Replay(r, m, log, k) ==
    IF m.phase \in {"none", "resolved", "rejected"} THEN m
    ELSE IF m.phase = "rollback" THEN Replay(r, Settle(r, m, Returns("null")), log, k)
    ELSE IF k > Len(log) THEN m
    ELSE IF log[k].fn = "rollback" THEN Replay(r, m, log, k + 1)
    ELSE IF log[k].out = "pending" THEN m
    ELSE Replay(r, Settle(r, m, log[k]), log, k + 1)

\* the variables of run r after a segment that ended in m
Commit(r, m) ==
    /\ wfEvents' = m.ev
    /\ context' = m.ctx
    /\ stepResults' = [stepResults EXCEPT ![r] = m.sr]
    /\ phase' = [phase EXCEPT ![r] = m.phase]
    /\ loopSteps' = [loopSteps EXCEPT ![r] = m.steps]
    /\ idx' = [idx EXCEPT ![r] = m.idx]
    /\ stepError' = [stepError EXCEPT ![r] = m.err]
    /\ loopError' = [loopError EXCEPT ![r] = m.lerr]
    /\ wfCalls' = [wfCalls EXCEPT ![r] = m.calls]
    /\ wfOrder' = [wfOrder EXCEPT ![r] =
                      IF m.phase \in {"resolved", "rejected"} THEN Append(@, "work")
                      ELSE @]

\* the catch block of execute
WfCatchBlock(r, error) ==
    IF WfEmitThrows("workflow:error")
    THEN [emits |-> <<WfEvent("workflow:error", r, NoStep)>>, pc |-> "rejected",
          result |-> WfNoResult, rejection |-> ListenerError]
    ELSE [emits |-> <<WfEvent("workflow:error", r, NoStep)>>, pc |-> "returned",
          result |-> WfFailure(ToError(error)), rejection |-> NoError]

\* the try block of execute after the awaited race
WfTryBlockEnd(r, ctx) ==
    IF ctx = NullContext
    THEN WfCatchBlock(r, NullContextError)
    ELSE IF WfEmitThrows("workflow:complete")
         THEN LET t == WfCatchBlock(r, ListenerError)
              IN  [t EXCEPT !.emits = <<WfEvent("workflow:complete", r, NoStep)>> \o t.emits]
         ELSE [emits |-> <<WfEvent("workflow:complete", r, NoStep)>>, pc |-> "returned",
               result |-> WfSuccess(ctx.data), rejection |-> NoError]

\* Promise.race: the promise that settled first decides
WfRaceWinner(o) == Head(o)

\* execute after the awaited race, the step loop being in m
WfOutcome(r, winner, m) ==
    IF winner = "timer"
    THEN WfCatchBlock(r, WorkflowTimeoutError)
    ELSE IF m.phase = "resolved" THEN WfTryBlockEnd(r, m.ctx)
         ELSE WfCatchBlock(r, m.lerr)

WfFinish(r, t) ==
    /\ wfEvents' = wfEvents \o t.emits
    /\ wfPc' = [wfPc EXCEPT ![r] = t.pc]
    /\ wfResult' = [wfResult EXCEPT ![r] = t.result]
    /\ wfRejection' = [wfRejection EXCEPT ![r] = t.rejection]

(***************************************************************************)
(* AgentWorkflow: actions                                                  *)
(***************************************************************************)
\* step(name, handler, options?); the step with a condition alone is when's
step(condition, hook) ==
    /\ Len(steps) < MaxSteps
    /\ ~stepsUsed
    /\ ~(condition /\ ~hook)
    /\ steps' = Append(steps, WorkflowStep(StepName(Len(steps) + 1), condition, hook))
    /\ UNCHANGED <<onError, context, wfThrowOn, wfEvents, runners, stepsUsed, runVars, baseVars>>

\* when(condition, name, handler)
when ==
    /\ Len(steps) < MaxSteps
    /\ ~stepsUsed
    /\ steps' = Append(steps, WorkflowStep(StepName(Len(steps) + 1), TRUE, FALSE))
    /\ UNCHANGED <<onError, context, wfThrowOn, wfEvents, runners, stepsUsed, runVars, baseVars>>

\* execute(input) up to the await of the race
WfExecute(r, in) ==
    /\ r \in runners
    /\ wfPc[r] = "idle"
    /\ wfInput' = [wfInput EXCEPT ![r] = in]
    /\ stepsUsed' = TRUE
    /\ Commit(r, Begin(r, Machine(r), in))
    /\ IF WfEmitThrows("workflow:start")
       THEN /\ wfPc' = [wfPc EXCEPT ![r] = "rejected"]
            /\ wfRejection' = [wfRejection EXCEPT ![r] = ListenerError]
            /\ UNCHANGED wfTimer
       ELSE /\ wfPc' = [wfPc EXCEPT ![r] = "racing"]
            /\ wfTimer' = [wfTimer EXCEPT ![r] = "armed"]
            /\ UNCHANGED wfRejection
    /\ UNCHANGED <<steps, onError, wfThrowOn, runners, wfResult, baseVars>>

\* the awaited step.condition(context) settles
ConditionSettles(r) ==
    /\ phase[r] = "condition"
    /\ \E o \in ConditionOutcomes : Commit(r, Settle(r, Machine(r), o))
    /\ UNCHANGED <<steps, onError, wfThrowOn, runners, stepsUsed, wfPc, wfInput, wfTimer, wfResult,
                   wfRejection, baseVars>>

\* the awaited step.handler(context) settles
HandlerSettles(r) ==
    /\ phase[r] = "handler"
    /\ \E o \in HandlerOutcomes : Commit(r, Settle(r, Machine(r), o))
    /\ UNCHANGED <<steps, onError, wfThrowOn, runners, stepsUsed, wfPc, wfInput, wfTimer, wfResult,
                   wfRejection, baseVars>>

\* the awaited step.onError(stepError, context) settles; when the hook throws,
\* its error is logged and dropped, and executeStep goes on the same way
HookSettles(r) ==
    /\ phase[r] = "hook"
    /\ \E o \in HookOutcomes : Commit(r, Settle(r, Machine(r), o))
    /\ UNCHANGED <<steps, onError, wfThrowOn, runners, stepsUsed, wfPc, wfInput, wfTimer, wfResult,
                   wfRejection, baseVars>>

\* the awaited this.rollback(stepResults) settles: throw stepResult.error
RollbackSettles(r) ==
    /\ phase[r] = "rollback"
    /\ \E o \in RollbackOutcomes : Commit(r, Settle(r, Machine(r), o))
    /\ UNCHANGED <<steps, onError, wfThrowOn, runners, stepsUsed, wfPc, wfInput, wfTimer, wfResult,
                   wfRejection, baseVars>>

\* a timer that cancels the step loop when it fires
WfTimerFiresCancelling(r) ==
    /\ wfTimer[r] = "armed"
    /\ wfTimer' = [wfTimer EXCEPT ![r] = "fired"]
    /\ wfOrder' = [wfOrder EXCEPT ![r] = Append(@, "timer")]
    /\ phase' = [phase EXCEPT ![r] = IF @ \in {"resolved", "rejected"} THEN @ ELSE "none"]
    /\ UNCHANGED <<wfVars, wfPc, wfInput, stepResults, loopSteps, idx, stepError, loopError,
                   wfCalls, wfResult, wfRejection, baseVars>>

\* the setTimeout of executeWithTimeout fires (it is never cleared); a timer
\* is a macrotask: it cannot run while a step loop is resuming from the
\* already resolved promise of rollback
WfTimerFires(r) ==
    /\ wfTimer[r] = "armed"
    /\ \A q \in Runs : phase[q] # "rollback"
    /\ wfTimer' = [wfTimer EXCEPT ![r] = "fired"]
    /\ wfOrder' = [wfOrder EXCEPT ![r] = Append(@, "timer")]
    /\ UNCHANGED <<wfVars, wfPc, wfInput, stepResults, phase, loopSteps, idx, stepError, loopError,
                   wfCalls, wfResult, wfRejection, baseVars>>

\* execute resumes after the awaited Promise.race has settled
WfResume(r) ==
    /\ wfPc[r] = "racing"
    /\ wfOrder[r] # <<>>
    /\ WfFinish(r, WfOutcome(r, WfRaceWinner(wfOrder[r]), Machine(r)))
    /\ UNCHANGED <<steps, onError, context, wfThrowOn, runners, stepsUsed, wfInput,
                   stepResults, phase, loopSteps, idx, stepError, loopError, wfCalls, wfTimer, wfOrder, baseVars>>

\* BaseAgent.getConfig(): an object with the fields of this.config; its retry
\* field is the retry object of this.config itself
getConfig ==
    /\ configCopy' = [held |-> TRUE, timeout |-> "config", retry |-> "shared"]
    /\ UNCHANGED <<wfConfigCopy, contextCopy, agentVars, callVars, delayVars, channelVars, crmVars, wfVars, runVars>>

\* the caller assigns the timeout field of the object it got
CopySetTimeout ==
    /\ configCopy.held
    /\ configCopy' = [configCopy EXCEPT !.timeout = "changed"]
    /\ UNCHANGED <<wfConfigCopy, contextCopy, agentVars, callVars, delayVars, channelVars, crmVars, wfVars, runVars>>

\* the caller assigns a new object to the retry field of the object it got
CopySetRetry ==
    /\ configCopy.held
    /\ configCopy' = [configCopy EXCEPT !.retry = "own"]
    /\ UNCHANGED <<wfConfigCopy, contextCopy, agentVars, callVars, delayVars, channelVars, crmVars, wfVars, runVars>>

\* the caller assigns retry.maxAttempts of the object it got
CopySetMaxAttempts(n) ==
    /\ configCopy.held
    /\ configCopy.retry = "shared"
    /\ retry' = [retry EXCEPT !.maxAttempts = n]
    /\ UNCHANGED <<initialized, agentThrowOn, agentEvents, inits, callers, callVars,
                   delayVars, wfVars, runVars, apiVars>>

\* AgentWorkflow.getConfig(): an object with the fields of this.config, none
\* of which is an object
WfGetConfig ==
    /\ wfConfigCopy' = [held |-> TRUE, timeout |-> "config", onError |-> onError]
    /\ UNCHANGED <<configCopy, contextCopy, agentVars, callVars, delayVars, channelVars, crmVars, wfVars, runVars>>

\* the caller assigns the onError or the timeout field of the object it got
WfCopySetOnError(s) ==
    /\ wfConfigCopy.held
    /\ wfConfigCopy' = [wfConfigCopy EXCEPT !.onError = s]
    /\ UNCHANGED <<configCopy, contextCopy, agentVars, callVars, delayVars, channelVars, crmVars, wfVars, runVars>>

WfCopySetTimeout ==
    /\ wfConfigCopy.held
    /\ wfConfigCopy' = [wfConfigCopy EXCEPT !.timeout = "changed"]
    /\ UNCHANGED <<configCopy, contextCopy, agentVars, callVars, delayVars, channelVars, crmVars, wfVars, runVars>>

\* clear(): a new empty array for this.steps, no context; a step loop that is
\* running keeps the array it iterates
clear ==
    /\ steps' = <<>>
    /\ context' = NullContext
    /\ stepsUsed' = FALSE
    /\ UNCHANGED <<onError, wfThrowOn, wfEvents, runners, runVars, baseVars>>

\* getContext(): null, or an object with the fields of this.context; its
\* history is the history array of this.context itself
ContextCopy(ctx) ==
    IF ctx = NullContext
    THEN [held |-> TRUE, null |-> TRUE, of |-> 0, data |-> "none"]
    ELSE [held |-> TRUE, null |-> FALSE, of |-> ctx.id, data |-> ctx.data]

getContext ==
    /\ contextCopy' = ContextCopy(context)
    /\ UNCHANGED <<configCopy, wfConfigCopy, agentVars, callVars, delayVars, channelVars, crmVars, wfVars, runVars>>

\* the caller assigns the data field of the object it got from getContext
CopySetData ==
    /\ contextCopy.held
    /\ ~contextCopy.null
    /\ contextCopy' = [contextCopy EXCEPT !.data = "changed"]
    /\ UNCHANGED <<configCopy, wfConfigCopy, agentVars, callVars, delayVars, channelVars, crmVars, wfVars, runVars>>

\* an entry that a caller pushes to a history list
CallerEntry == StepResult(NoStep, TRUE, "caller", NoError)

\* the array that the history field of the object from getContext refers to
\* is the history of this.context, as long as this.context is the context the
\* object was made from
HistoryShared == contextCopy.held /\ ~contextCopy.null /\ contextCopy.of = context.id

\* the caller pushes an entry to the history of the object it got
CopyHistoryPush ==
    /\ HistoryShared
    /\ \A k \in DOMAIN context.history : context.history[k] # CallerEntry
    /\ context' = [context EXCEPT !.history = Append(@, CallerEntry)]
    /\ UNCHANGED <<steps, onError, wfThrowOn, wfEvents, runners, stepsUsed, runVars, baseVars>>

\* the caller empties the history of the object it got (history.length = 0)
CopyHistoryClear ==
    /\ HistoryShared
    /\ context.history # <<>>
    /\ context' = [context EXCEPT !.history = <<>>]
    /\ UNCHANGED <<steps, onError, wfThrowOn, wfEvents, runners, stepsUsed, runVars, baseVars>>

(***************************************************************************)
(* The event channel: onEvent, offEvent, emitEvent over eventemitter3       *)
(***************************************************************************)
\* listener functions a caller registers; BadListener throws when called
Listeners == {"f", "g", "bad"}
BadListener == "bad"

\* the entries of the listener array that emit('event', event) calls: one
\* after the other in array order, up to the first listener that throws
Called(ls) ==
    LET bad == {i \in DOMAIN ls : ls[i] = BadListener}
    IN  IF bad = {} THEN ls
        ELSE SubSeq(ls, 1, CHOOSE i \in bad : \A j \in bad : i <= j)

\* onEvent(listener): this.on('event', listener) adds an entry to the array,
\* whether the function is already in it or not
onEvent(l) ==
    /\ Len(listeners) < MaxRegistrations
    /\ listeners' = Append(listeners, l)
    /\ UNCHANGED <<emitted, deliveries, configCopy, wfConfigCopy, contextCopy,
                   crmVars, agentVars, callVars, delayVars, wfVars, runVars>>

\* offEvent(listener): this.off('event', listener) keeps the entries of the
\* array whose function is another one
offEvent(l) ==
    /\ listeners' = SelectSeq(listeners, LAMBDA x : x # l)
    /\ UNCHANGED <<emitted, deliveries, configCopy, wfConfigCopy, contextCopy,
                   crmVars, agentVars, callVars, delayVars, wfVars, runVars>>

\* emitEvent(event): this.emit('event', event) calls the entries of the array
\* before it returns; this.emit(event.type, event) reaches no listener that
\* was registered through onEvent
emitEvent ==
    /\ emitted < MaxEmissions
    /\ emitted' = emitted + 1
    /\ deliveries' = deliveries \o
          [i \in 1..Len(Called(listeners)) |->
              [emission |-> emitted + 1, listener |-> listeners[i]]]
    /\ UNCHANGED <<listeners, configCopy, wfConfigCopy, contextCopy,
                   crmVars, agentVars, callVars, delayVars, wfVars, runVars>>

CallInit ==
    /\ pc = [c \in Calls |-> "idle"]
    /\ input = [c \in Calls |-> "none"]
    /\ attempt = [c \in Calls |-> 0]
    /\ invocations = [c \in Calls |-> 0]
    /\ outcomes = [c \in Calls |-> <<>>]
    /\ lastError = [c \in Calls |-> NoError]
    /\ loop = [c \in Calls |-> "none"]
    /\ loopResult = [c \in Calls |-> NotSettled]
    /\ sleeps = [c \in Calls |-> <<>>]
    /\ timer = [c \in Calls |-> "unset"]
    /\ order = [c \in Calls |-> <<>>]
    /\ caught = [c \in Calls |-> NoError]
    /\ result = [c \in Calls |-> NoResult]
    /\ rejection = [c \in Calls |-> NoError]
    /\ contextArg = [c \in Calls |-> NoContextArg]
    /\ executionContext = [c \in Calls |-> NoContext]

RunInit ==
    /\ wfPc = [r \in Runs |-> "idle"]
    /\ wfInput = [r \in Runs |-> "none"]
    /\ stepResults = [r \in Runs |-> <<>>]
    /\ phase = [r \in Runs |-> "none"]
    /\ loopSteps = [r \in Runs |-> <<>>]
    /\ idx = [r \in Runs |-> 0]
    /\ stepError = [r \in Runs |-> NoError]
    /\ loopError = [r \in Runs |-> NoError]
    /\ wfTimer = [r \in Runs |-> "unset"]
    /\ wfOrder = [r \in Runs |-> <<>>]
    /\ wfCalls = [r \in Runs |-> <<>>]
    /\ wfResult = [r \in Runs |-> WfNoResult]
    /\ wfRejection = [r \in Runs |-> NoError]

\* no caller holds an object returned by getConfig or getContext
NoConfigCopy == [held |-> FALSE, timeout |-> "config", retry |-> "shared"]
NoWfConfigCopy == [held |-> FALSE, timeout |-> "config", onError |-> "stop"]
NoContextCopy == [held |-> FALSE, null |-> TRUE, of |-> 0, data |-> "none"]
NoCopies ==
    /\ configCopy = NoConfigCopy
    /\ wfConfigCopy = NoWfConfigCopy
    /\ contextCopy = NoContextCopy
    /\ listeners = <<>>
    /\ emitted = 0
    /\ deliveries = <<>>
    /\ providerInitialized = FALSE
    /\ crmPc = [o \in CrmTasks |-> "none"]
    /\ pending = <<>>

\* a constructed AgentWorkflow with its default configuration, never used
WorkflowUnused ==
    /\ steps = <<>>
    /\ onError = "stop"
    /\ context = NullContext
    /\ wfThrowOn = {}
    /\ wfEvents = <<>>
    /\ runners = {}
    /\ stepsUsed = FALSE
    /\ RunInit

\* a constructed BaseAgent, never used
AgentUnused ==
    /\ initialized = FALSE
    /\ retry = DefaultRetry
    /\ agentThrowOn = {}
    /\ agentEvents = <<>>
    /\ inits = 0
    /\ callers = {}
    /\ CallInit
    /\ delayIn = DelayIdle
    /\ delayOut = Undefined

(***************************************************************************)
(* Specifications                                                          *)
(***************************************************************************)
\* a constructed BaseAgent with listeners registered, one execute call ahead
Init ==
    /\ initialized = FALSE
    /\ retry \in RetryConfigs
    /\ agentThrowOn \in SUBSET AgentEventTypes
    /\ agentEvents = <<>>
    /\ inits = 0
    /\ callers = {1}
    /\ CallInit
    /\ delayIn = DelayIdle
    /\ delayOut = Undefined
    /\ WorkflowUnused
    /\ NoCopies

Next ==
    \/ Initialize
    \/ Close
    \/ \E c \in Calls, in \in Inputs : Execute(c, in)
    \/ \E c \in Calls : ResumeAfterInit(c)
    \/ \E c \in Calls : WorkSettles(c)
    \/ \E c \in Calls : SleepEnds(c)
    \/ \E c \in Calls : TimerFires(c)
    \/ \E c \in Calls : ResumeAfterRace(c)

Spec == Init /\ [][Next]_vars

\* calculateRetryDelay over its inputs
DelayInit ==
    /\ initialized = FALSE
    /\ retry = DefaultRetry
    /\ agentThrowOn = {}
    /\ agentEvents = <<>>
    /\ inits = 0
    /\ callers = {}
    /\ CallInit
    /\ delayIn \in DelayInputs
    /\ delayOut = Undefined
    /\ WorkflowUnused
    /\ NoCopies

DelayNext == ComputeDelay

DelaySpec == DelayInit /\ [][DelayNext]_vars

\* AgentWorkflow: a constructed workflow with listeners registered; the caller
\* registers steps and makes one execute call
WfInit ==
    /\ AgentUnused
    /\ steps = <<>>
    /\ onError \in Strategies
    /\ context = NullContext
    /\ wfThrowOn \in {{}} \cup {{t} : t \in WorkflowEventTypes} \cup {WorkflowEventTypes}
    /\ wfEvents = <<>>
    /\ runners = {1}
    /\ stepsUsed = FALSE
    /\ RunInit
    /\ NoCopies

WfNext ==
    \/ \E condition, hook \in BOOLEAN : step(condition, hook)
    \/ when
    \/ \E r \in Runs, in \in WfInputs : WfExecute(r, in)
    \/ \E r \in Runs : ConditionSettles(r)
    \/ \E r \in Runs : HandlerSettles(r)
    \/ \E r \in Runs : HookSettles(r)
    \/ \E r \in Runs : RollbackSettles(r)
    \/ \E r \in Runs : WfTimerFires(r)
    \/ \E r \in Runs : WfResume(r)

WfSpec == WfInit /\ [][WfNext]_vars

(***************************************************************************)
(* Properties of BaseAgent                                                 *)
(***************************************************************************)
EventsOf(c, types) ==
    {i \in DOMAIN agentEvents : agentEvents[i].call = c /\ agentEvents[i].type \in types}

AllFailed(os) == \A i \in DOMAIN os : ~os[i].ok

\* C1: execute never rejects: every call that ends, ends by returning an
\* AgentResult, whatever the input, the work function, initialize() and the
\* listeners do.
ExecuteNeverRejects ==
    \A c \in Calls : pc[c] # "rejected"

\* C3: when the retry loop settles before the timer fires, execute returns the
\* loop's outcome (data on success, the typed error on exhaustion); when the
\* timer fires first, execute returns a TIMEOUT failure.
RaceOutcomeReturned ==
    \A c \in Calls :
        (pc[c] = "returned" /\ order[c] # <<>>) =>
            IF order[c][1] = "timer"
            THEN result[c] = FailureResult(TimeoutError)
            ELSE IF loop[c] = "resolved"
                 THEN result[c] = SuccessResult(loopResult[c].data)
                 ELSE result[c] = FailureResult(normalizeError(loopResult[c].error))

\* C4: the work function is invoked at most maxAttempts times (late
\* invocations after a timeout included), exactly maxAttempts times when
\* every attempt fails, and the loop stops at the first success.
RetryCount ==
    \A c \in Calls :
        /\ invocations[c] <= retry.maxAttempts
        /\ Len(outcomes[c]) <= invocations[c]
        /\ loop[c] = "rejected" =>
              /\ invocations[c] = retry.maxAttempts
              /\ Len(outcomes[c]) = retry.maxAttempts
              /\ AllFailed(outcomes[c])
        /\ loop[c] = "resolved" =>
              /\ invocations[c] \in 1..retry.maxAttempts
              /\ Len(outcomes[c]) = invocations[c]
        /\ \A i \in DOMAIN outcomes[c] :
              outcomes[c][i].ok => (i = Len(outcomes[c]) /\ i = invocations[c]
                                     /\ loop[c] = "resolved")
        /\ (loop[c] \in {"running", "sleeping"}) => AllFailed(outcomes[c])

\* the loop is exhausted after the timer has already fired
RetryCountWitness ==
    \E c \in Calls :
        /\ loop[c] = "rejected"
        /\ retry.maxAttempts >= 2
        /\ invocations[c] = retry.maxAttempts
        /\ order[c] = <<"timer", "work">>

\* C6: a run that made n attempts has slept n-1 times (n times while it
\* sleeps before attempt n+1), the i-th sleep after the failed attempt i with
\* the delay computed for attempt i, and never after the last attempt.
\* Scenario D: maxAttempts 3, delay 100, exponential, two failures then a
\* success: 3 invocations, sleeps of 100 and 200, success.
ScenarioDRetry == RetryConfig(3, 100, "exponential", Undefined)

SleepsBetweenAttempts ==
    \A c \in Calls :
        /\ Len(sleeps[c]) =
              IF invocations[c] = 0 THEN 0
              ELSE IF loop[c] = "sleeping" THEN invocations[c]
              ELSE invocations[c] - 1
        /\ \A i \in DOMAIN sleeps[c] :
              /\ i <= Len(outcomes[c]) /\ ~outcomes[c][i].ok
              /\ i < retry.maxAttempts
              /\ sleeps[c][i] = calculateRetryDelay(i, retry)
        /\ (/\ retry = ScenarioDRetry
            /\ Len(outcomes[c]) = 3
            /\ ~outcomes[c][1].ok /\ ~outcomes[c][2].ok /\ outcomes[c][3].ok) =>
              /\ invocations[c] = 3
              /\ sleeps[c] = <<100, 200>>
              /\ loop[c] = "resolved"
              /\ (/\ pc[c] = "returned"
                  /\ order[c][1] = "work"
                  /\ EventsOf(c, {"agent:error"}) = {}) =>
                    result[c] = SuccessResult(outcomes[c][3].value)

\* scenario D has run to its result
SleepsBetweenAttemptsWitness ==
    \E c \in Calls :
        /\ retry = ScenarioDRetry
        /\ Len(outcomes[c]) = 3 /\ outcomes[c][3].ok
        /\ sleeps[c] = <<100, 200>>
        /\ pc[c] = "returned" /\ result[c].success

\* C7: with a null or undefined input the work function is never invoked, no
\* sleep happens, no timer is started, and the result execute returns is an
\* INVALID_INPUT failure announced by agent:error.
ValidationShortCircuit ==
    \A c \in Calls :
        input[c] \in {"null", "undefined"} =>
            /\ invocations[c] = 0 /\ outcomes[c] = <<>>
            /\ sleeps[c] = <<>>
            /\ timer[c] = "unset" /\ loop[c] = "none"
            /\ pc[c] = "returned" =>
                  /\ result[c].kind = "result"
                  /\ ~result[c].success
                  /\ result[c].error.kind = "AgentError"
                  /\ result[c].error.code = "INVALID_INPUT"
                  /\ EventsOf(c, {"agent:error"}) # {}
                  /\ EventsOf(c, {"agent:complete"}) = {}

ValidationShortCircuitWitness ==
    \E c \in Calls :
        /\ input[c] = "undefined"
        /\ pc[c] = "returned"
        /\ result[c].error.code = "INVALID_INPUT"

\* C8: when every attempt failed and the loop settled before the timer, the
\* error of the result is the (normalized) error thrown by the last attempt;
\* EXECUTION_FAILED appears only when no attempt threw.
LastErrorReturned ==
    \A c \in Calls :
        (/\ pc[c] = "returned"
         /\ order[c] # <<>> /\ order[c][1] = "work"
         /\ loop[c] = "rejected"
         /\ outcomes[c] # <<>>) =>
            /\ result[c].error = normalizeError(outcomes[c][Len(outcomes[c])].error)
            /\ result[c].error.code # "EXECUTION_FAILED"

\* C9: the error of every failure result is an AgentError: the caught value
\* itself when it is an AgentError, else a new AgentError with code
\* UNKNOWN_ERROR, the message of the caught value and that value as details.
ErrorNormalized ==
    \A c \in Calls :
        (pc[c] = "returned" /\ ~result[c].success) =>
            /\ result[c].error.kind = "AgentError"
            /\ caught[c].kind = "AgentError" => result[c].error = caught[c]
            /\ caught[c].kind # "AgentError" =>
                  /\ result[c].error.code = "UNKNOWN_ERROR"
                  /\ result[c].error.details = caught[c].id
                  /\ result[c].error.message =
                        IF caught[c].kind = "Error" THEN caught[c].message
                        ELSE caught[c].str

\* a thrown string has been wrapped
ErrorNormalizedWitness ==
    \E c \in Calls :
        /\ pc[c] = "returned"
        /\ caught[c] = ThrownString
        /\ result[c].error.message = "oops"

\* C10: every initialization emits one agent:start, and every execute call
\* that has returned has emitted exactly one terminal event, whose type agrees
\* with the success flag of the result.
TerminalEventOnce ==
    /\ Cardinality({i \in DOMAIN agentEvents : agentEvents[i].type = "agent:start"}) = inits
    /\ \A c \in Calls :
          pc[c] = "returned" =>
             /\ Cardinality(EventsOf(c, {"agent:complete", "agent:error"})) = 1
             /\ result[c].success <=> EventsOf(c, {"agent:complete"}) # {}

\* C5: the delay computed after failed attempt k is min(delay * 2^(k-1),
\* maxDelay) under exponential backoff when maxDelay is set (0 included),
\* delay * 2^(k-1) when it is not, and delay under linear or no backoff.
BackoffDelay ==
    delayOut # Undefined =>
        LET k == delayIn.attempt
            r == delayIn.retry
        IN  delayOut =
               IF r.backoff = "exponential"
               THEN IF r.maxDelay # Undefined
                    THEN Min(r.delay * 2 ^ (k - 1), r.maxDelay)
                    ELSE r.delay * 2 ^ (k - 1)
               ELSE r.delay

(***************************************************************************)
(* Properties of AgentWorkflow                                             *)
(***************************************************************************)
\* C2: AgentWorkflow.execute never rejects: every call that ends, ends by
\* returning a WorkflowResult, whatever the steps, the handlers, conditions
\* and hooks, the failure strategy, the timer and the listeners do.
WorkflowNeverRejects ==
    \A r \in Runs : wfPc[r] # "rejected"

\* C11: an exception thrown by an event listener never reaches a run: no
\* execute call (BaseAgent or AgentWorkflow) rejects with it or catches it, no
\* step loop is aborted by it, and no StepResult or result carries it.
ListenerIsolation ==
    /\ \A c \in Calls : rejection[c] # ListenerError /\ caught[c] # ListenerError
    /\ \A r \in Runs :
          /\ wfRejection[r] # ListenerError
          /\ wfResult[r].error # ListenerError
          /\ loopError[r] # ListenerError
          /\ \A i \in DOMAIN stepResults[r] : stepResults[r][i].error # ListenerError

(***************************************************************************)
(* Properties of AgentWorkflow: the step loop                              *)
(***************************************************************************)
SomeStepFailed(r) == \E i \in DOMAIN stepResults[r] : ~stepResults[r][i].success

\* C12 as stated: once execute has returned, context.history and result.steps
\* hold as many StepResults as there are registered steps, except when the
\* stop strategy has cut the run at a failed step.
StepCountUnlessStop ==
    \A r \in Runs :
        (wfPc[r] = "returned" /\ ~(onError = "stop" /\ SomeStepFailed(r))) =>
            /\ Len(stepResults[r]) = Len(steps)
            /\ Len(context.history) = Len(steps)

\* C12 amended: once execute has returned, context.history and result.steps
\* hold the same number of StepResults, never more than there are registered
\* steps, and exactly that many when the step loop ran to its end (every
\* success result).  A run cut short holds fewer: under stop and under
\* rollback nothing follows the first failing StepResult, and a run that timed
\* out holds the results recorded so far.
StepCount ==
    \A r \in Runs :
        wfPc[r] = "returned" =>
            /\ Len(context.history) = Len(stepResults[r])
            /\ Len(stepResults[r]) <= Len(steps)
            /\ phase[r] = "resolved" => Len(stepResults[r]) = Len(steps)
            /\ wfResult[r].success => Len(stepResults[r]) = Len(steps)
            /\ onError \in {"stop", "rollback"} =>
                  \A i \in 1..(Len(stepResults[r]) - 1) : stepResults[r][i].success

\* a rollback run cut at its first step, no listener throwing, no timeout
StepCountWitness ==
    \E r \in Runs :
        /\ wfPc[r] = "returned"
        /\ onError = "rollback" /\ wfThrowOn = {}
        /\ wfOrder[r][1] = "work"
        /\ Len(steps) = 2 /\ Len(stepResults[r]) = 1
        /\ ~stepResults[r][1].success

\* C13: in every state of a run context.history and result.steps (the
\* stepResults array) are the same list, its i-th StepResult has the name of
\* the i-th registered step, and it holds one StepResult for every step the
\* loop has been through: the steps before the current one, and the current
\* one too once the loop has left it (rejected at it, or rolling back).
StepOrder ==
    \A r \in Runs :
        phase[r] # "none" =>
            /\ context.history = stepResults[r]
            /\ \A i \in DOMAIN stepResults[r] : stepResults[r][i].step = steps[i].name
            /\ Len(stepResults[r]) =
                  IF phase[r] \in {"rollback", "rejected"} THEN idx[r] ELSE idx[r] - 1

\* the condition awaited by run r settles with false in this step
ConditionFalse(r) ==
    /\ phase[r] = "condition"
    /\ Len(wfCalls'[r]) >= Len(wfCalls[r])
    /\ wfCalls'[r][Len(wfCalls[r])].out = "returned"
    /\ wfCalls'[r][Len(wfCalls[r])].value = "false"

HandlerCalls(log, i) == {k \in DOMAIN log : log[k].fn = "handler" /\ log[k].step = i}

\* C14: when the condition of step i evaluates to false, the StepResult
\* {step, success: true, data: null} is pushed to stepResults and to
\* context.history, context.data keeps its value, the loop moves on to step
\* i+1 (its step:start is emitted, or the loop ends after the last step), and
\* the handler of step i is not invoked, then or later.
SkipLeavesData ==
    [][\A r \in Runs :
          /\ ConditionFalse(r) =>
                LET i == idx[r]
                    skip == StepResult(steps[i].name, TRUE, "null", NoError)
                IN  /\ stepResults'[r] = Append(stepResults[r], skip)
                    /\ context'.history = Append(context.history, skip)
                    /\ context'.data = context.data
                    /\ idx'[r] = i + 1
                    /\ IF i = Len(steps)
                       THEN phase'[r] = "resolved" /\ wfEvents' = wfEvents
                       ELSE wfEvents' = Append(wfEvents,
                                               WfEvent("step:start", r, steps[i + 1].name))
          /\ \A k \in DOMAIN wfCalls'[r] :
                (wfCalls'[r][k].fn = "condition" /\ wfCalls'[r][k].value = "false") =>
                    HandlerCalls(wfCalls'[r], wfCalls'[r][k].step) = {}
      ]_vars

\* step 1 has replaced the payload, step 2 was skipped, the run has returned
SkipLeavesDataWitness ==
    \E r \in Runs :
        /\ wfPc[r] = "returned" /\ wfResult[r].success
        /\ Len(stepResults[r]) = 2
        /\ stepResults[r][1].data = "data"
        /\ stepResults[r][2] = StepResult(steps[2].name, TRUE, "null", NoError)
        /\ HandlerCalls(wfCalls[r], 2) = {}
        /\ context.data = "data" /\ wfResult[r].data = "data"

StepEventsOf(r) ==
    SelectSeq(wfEvents, LAMBDA e : e.run = r /\ e.type \in {"step:start", "step:complete",
                                                           "step:error"})

\* C15: the step events of a run come in pairs, one pair per step the loop
\* has been through and in step order: step:start, then one closing event of
\* the same step, which is step:complete when the recorded StepResult is a
\* success (a skip included) and step:error when it is a failure.
StepEventsPaired ==
    \A r \in Runs :
        LET ev == StepEventsOf(r)
        IN  \A i \in DOMAIN stepResults[r] :
                /\ Len(ev) >= 2 * i
                /\ ev[2 * i - 1] = WfEvent("step:start", r, steps[i].name)
                /\ ev[2 * i] = WfEvent(IF stepResults[r][i].success THEN "step:complete"
                                       ELSE "step:error", r, steps[i].name)

RECURSIVE Threaded(_, _, _)
\* the payload after the first n calls of log: the value returned by the last
\* handler that returned something other than null, or the input
Threaded(log, n, in) ==
    IF n = 0 THEN in
    ELSE IF log[n].fn = "handler" /\ log[n].out = "returned" /\ log[n].value # "null"
         THEN log[n].value
         ELSE Threaded(log, n - 1, in)

\* C16: context.data is the value returned by the last handler that returned
\* something other than null/undefined (a falsy value counts), or the input
\* if none did; every condition, handler and hook is called with that payload;
\* and a success result carries it as its data.
PayloadThreading ==
    \A r \in Runs :
        phase[r] # "none" =>
            /\ context.data = Threaded(wfCalls[r], Len(wfCalls[r]), wfInput[r])
            /\ \A k \in DOMAIN wfCalls[r] :
                  wfCalls[r][k].data = Threaded(wfCalls[r], k - 1, wfInput[r])
            /\ (wfPc[r] = "returned" /\ wfResult[r].success) =>
                  wfResult[r].data = Threaded(wfCalls[r], Len(wfCalls[r]), wfInput[r])

\* step 1 returned a falsy value, step 2 returned null: the result carries
\* the falsy value
PayloadThreadingWitness ==
    \E r \in Runs :
        /\ wfPc[r] = "returned" /\ wfResult[r].success
        /\ Len(stepResults[r]) = 2
        /\ stepResults[r][1].data = "false"
        /\ stepResults[r][2].data = "null"
        /\ HandlerCalls(wfCalls[r], 2) # {}
        /\ wfResult[r].data = "false"

\* the calls of a condition or a handler that threw
ThrowingCalls(log) ==
    {k \in DOMAIN log : log[k].fn \in {"condition", "handler"} /\ log[k].out = "threw"}

\* error instanceof Error, else an Error with the string of the thrown value
IsErrorOf(error, thrown) ==
    IF thrown.kind \in {"Error", "AgentError"} THEN error = thrown
    ELSE error.kind = "Error" /\ error.message = thrown.str

\* C17: under onError = 'stop', once the condition or handler of step i has
\* thrown, no condition or handler of a later step is ever called, and when
\* the loop settled before the timer the result execute returns is a failure
\* whose error is the error of step i, with exactly i StepResults of which the
\* last is the failing one.
StopAborts ==
    \A r \in Runs :
        onError = "stop" =>
            \A k \in ThrowingCalls(wfCalls[r]) :
                LET i == wfCalls[r][k].step
                IN  /\ \A j \in DOMAIN wfCalls[r] :
                          wfCalls[r][j].fn \in {"condition", "handler"} =>
                              wfCalls[r][j].step <= i
                    /\ (wfPc[r] = "returned" /\ wfOrder[r][1] = "work") =>
                          /\ ~wfResult[r].success
                          /\ IsErrorOf(wfResult[r].error, wfCalls[r][k].error)
                          /\ Len(stepResults[r]) = i
                          /\ ~stepResults[r][i].success
                          /\ stepResults[r][i].error = wfResult[r].error

\* C18: under onError = 'continue' the step loop is never aborted: the
\* failing StepResult of a step that threw is in the history with its error,
\* the loop goes through every registered step, and the calls of the step
\* after a failed one receive the payload the failed step received.
ContinueKeepsGoing ==
    \A r \in Runs :
        onError = "continue" =>
            /\ phase[r] # "rejected"
            /\ phase[r] = "resolved" => Len(stepResults[r]) = Len(steps)
            /\ \A k \in ThrowingCalls(wfCalls[r]) :
                  LET i == wfCalls[r][k].step
                  IN  idx[r] > i =>
                         /\ i \in DOMAIN stepResults[r]
                         /\ ~stepResults[r][i].success
                         /\ IsErrorOf(stepResults[r][i].error, wfCalls[r][k].error)
                         /\ context.history[i] = stepResults[r][i]
            /\ \A i \in DOMAIN stepResults[r] :
                  ~stepResults[r][i].success =>
                      \A j, k \in DOMAIN wfCalls[r] :
                          (wfCalls[r][j].step = i /\ wfCalls[r][k].step = i + 1) =>
                              wfCalls[r][k].data = wfCalls[r][j].data

\* what a caller and its listeners can observe of a step loop in m: the
\* events it emitted, the StepResults, the payload, how it settled, and the
\* conditions, handlers and hooks it called
Observed(m) ==
    [events |-> SelectSeq(m.ev, LAMBDA e : e.type \notin {"workflow:complete",
                                                          "workflow:error"}),
     steps |-> m.sr, history |-> m.ctx.history, data |-> m.ctx.data,
     phase |-> m.phase, error |-> m.lerr,
     calls |-> SelectSeq(m.calls, LAMBDA c : c.fn # "rollback")]

OtherStrategy == IF onError = "stop" THEN "rollback" ELSE "stop"

\* C19: a run under 'stop' or 'rollback', replayed under the other of the
\* two strategies with the same steps, input, listeners and the same
\* behaviour of every condition, handler and hook, makes the same calls, emits
\* the same events, holds the same StepResults and payload (rollback restores
\* nothing), settles the same way, and gives execute the same result and
\* terminal events.
RollbackEqualsStop ==
    \A r \in Runs :
        (wfPc[r] # "idle" /\ onError \in {"stop", "rollback"}) =>
            LET own == Replay(r, Started(r, onError), wfCalls[r], 1)
                twin == Replay(r, Started(r, OtherStrategy), wfCalls[r], 1)
            IN  /\ phase[r] # "rollback" => Observed(own) = Observed(Machine(r))
                /\ Observed(twin) = Observed(own)
                /\ wfOrder[r] # <<>> =>
                      WfOutcome(r, WfRaceWinner(wfOrder[r]), twin) =
                          WfOutcome(r, WfRaceWinner(wfOrder[r]), own)
                /\ (wfPc[r] = "returned" /\ wfOrder[r] = <<"work">>) =>
                      wfResult[r] = WfOutcome(r, "work", twin).result

\* a rollback run: step 1 replaced the payload, step 2 threw, rollback was
\* called and the payload is still the one step 1 returned
RollbackEqualsStopWitness ==
    \E r \in Runs :
        /\ onError = "rollback" /\ wfPc[r] = "returned"
        /\ Len(stepResults[r]) = 2
        /\ stepResults[r][1].data = "data" /\ ~stepResults[r][2].success
        /\ \E k \in DOMAIN wfCalls[r] :
              wfCalls[r][k].fn = "rollback" /\ wfCalls[r][k].out = "returned"
        /\ context.data = "data"
        /\ wfResult[r].error = stepResults[r][2].error

WfEventsOf(r, types) ==
    {i \in DOMAIN wfEvents : wfEvents[i].run = r /\ wfEvents[i].type \in types}

\* C20: the first event of a run is workflow:start, and a run that has
\* returned has emitted exactly one terminal event: workflow:complete with
\* {success: true, data: context.data, one StepResult per step} when the step
\* loop ran to its end before the timer fired; workflow:error with
\* {success: false, error} otherwise, the error being the one the loop was
\* aborted with, or an error with code TIMEOUT when the timer fired first.
WorkflowOutcome ==
    \A r \in Runs :
        /\ wfPc[r] # "idle" =>
              \A i \in WfEventsOf(r, WorkflowEventTypes) :
                  i = 1 <=> wfEvents[i].type = "workflow:start"
        /\ wfPc[r] = "returned" =>
              /\ Cardinality(WfEventsOf(r, {"workflow:complete", "workflow:error"})) = 1
              /\ IF wfOrder[r][1] = "timer"
                 THEN /\ ~wfResult[r].success
                      /\ wfResult[r].error.code = "TIMEOUT"
                      /\ WfEventsOf(r, {"workflow:error"}) # {}
                 ELSE IF phase[r] = "resolved"
                 THEN /\ wfResult[r].success
                      /\ wfResult[r].data = context.data
                      /\ Len(stepResults[r]) = Len(steps)
                      /\ WfEventsOf(r, {"workflow:complete"}) # {}
                 ELSE /\ ~wfResult[r].success
                      /\ IsErrorOf(wfResult[r].error, loopError[r])
                      /\ WfEventsOf(r, {"workflow:error"}) # {}

(***************************************************************************)
(* Properties of results, reuse and the accessors                          *)
(***************************************************************************)
\* C21: the result of an execute call does not change once execute has
\* returned it: neither the AgentResult, nor the WorkflowResult, nor the steps
\* list of the WorkflowResult (the stepResults array itself).
ResultImmutable ==
    [][/\ \A c \in Calls : pc[c] = "returned" => result'[c] = result[c]
       /\ \A r \in Runs :
             wfPc[r] = "returned" =>
                /\ wfResult'[r] = wfResult[r]
                /\ stepResults'[r] = stepResults[r]
      ]_vars

\* the input of the r-th execute call on one workflow: each call has its own
RunInput(r) == IF r = 1 THEN "lead" ELSE "lead2"

\* the most steps of a workflow on which two execute calls are made
MaxRunSteps == 1

\* n steps registered with step(name, handler), no options
PlainSteps(n) == [i \in 1..n |-> WorkflowStep(StepName(i), FALSE, FALSE)]

\* AgentWorkflow: one instance with its steps registered, no listener; the
\* caller makes two execute calls, the second at any time after the first was
\* made (after it has returned, or while it is still running)
TwoRunInit ==
    /\ AgentUnused
    /\ steps \in {PlainSteps(n) : n \in 1..MaxRunSteps}
    /\ onError \in Strategies
    /\ context = NullContext
    /\ wfThrowOn = {}
    /\ wfEvents = <<>>
    /\ runners = {1, 2}
    /\ stepsUsed = FALSE
    /\ RunInit
    /\ NoCopies

TwoRunNext ==
    \/ \E r \in Runs : (\A q \in Runs : q < r => wfPc[q] # "idle") /\ WfExecute(r, RunInput(r))
    \/ \E r \in Runs : HandlerSettles(r)
    \/ \E r \in Runs : RollbackSettles(r)
    \/ \E r \in Runs : WfTimerFires(r)
    \/ \E r \in Runs : WfResume(r)

TwoRunSpec == TwoRunInit /\ [][TwoRunNext]_vars

\* execute call q was made after execute call p had returned: the terminal
\* event of p precedes workflow:start of q
MadeAfterReturn(q, p) ==
    \E i, j \in DOMAIN wfEvents :
        /\ i < j
        /\ wfEvents[i].run = p
        /\ wfEvents[i].type \in {"workflow:complete", "workflow:error"}
        /\ wfEvents[j] = WfEvent("workflow:start", q, NoStep)

\* what the handlers of run r have written to context.data
DataWritten(r) ==
    {wfCalls[r][k].value : k \in {k \in DOMAIN wfCalls[r] :
        /\ wfCalls[r][k].fn = "handler"
        /\ wfCalls[r][k].out = "returned"
        /\ UpdatesData(wfCalls[r][k].value)}}

\* C22: an execute call made after an earlier call on the same workflow has
\* returned (completed, stopped or timed out) runs on a fresh context: its
\* history holds the step results of the new run and nothing else, and its
\* data is the new input or what a handler of the new run returned.
FreshRunOnReuse ==
    MadeAfterReturn(2, 1) =>
        /\ context.id = 2
        /\ context.history = stepResults[2]
        /\ context.data \in {RunInput(2)} \cup DataWritten(2)

\* execute call q was made while execute call p had not returned
Overlapping(p, q) ==
    /\ wfPc[p] # "idle"
    /\ wfPc[q] # "idle"
    /\ ~MadeAfterReturn(q, p)
    /\ ~MadeAfterReturn(p, q)

\* C23: all execute calls on one workflow work on the single context field:
\* whichever run pushes a step result, it is appended to the history of the
\* context that is current then; the payload a condition, handler or hook is
\* given is the data of the current context; and the data of a success result
\* is the data of the context current at return.  With two overlapping calls
\* the current context is the one of the later call.
SharedContext ==
    [][\A r \in Runs :
          /\ Len(stepResults'[r]) > Len(stepResults[r]) =>
                context'.history =
                    Append(context.history, stepResults'[r][Len(stepResults'[r])])
          /\ (Len(wfCalls'[r]) > Len(wfCalls[r]) /\ wfCalls'[r][Len(wfCalls'[r])].fn # "rollback") =>
                wfCalls'[r][Len(wfCalls'[r])].data = context'.data
          /\ (wfPc[r] = "racing" /\ wfPc'[r] = "returned" /\ wfResult'[r].success) =>
                wfResult'[r].data = context.data
      ]_vars

\* two overlapping calls: the step result of the first run is in the history
\* of the second run's context, and the first run's result carries the second
\* run's input
SharedContextWitness ==
    /\ Overlapping(1, 2)
    /\ context.id = 2
    /\ stepResults[2] = <<>>
    /\ Len(stepResults[1]) = 1
    /\ context.history = stepResults[1]
    /\ wfPc[1] = "returned"
    /\ wfResult[1].success
    /\ wfResult[1].data = RunInput(2)

\* either component in use: a BaseAgent with one execute call ahead, or an
\* AgentWorkflow with one execute call ahead
EitherInit == Init \/ WfInit

EitherNext ==
    \/ callers # {} /\ Next
    \/ runners # {} /\ WfNext

EitherSpec == EitherInit /\ [][EitherNext]_vars

\* C24: within one run the conditions and handlers are called one after
\* another in registration order: a call is made only when every earlier call
\* of the run has settled, the steps of the calls never go back, a step's
\* condition is called before its handler and each at most once; and the
\* attempts of one BaseAgent.execute call never overlap: an attempt is started
\* only when the one before it has settled.
SequentialExecution ==
    /\ \A r \in Runs :
          LET log == wfCalls[r]
          IN  /\ \A k \in DOMAIN log : log[k].out = "pending" => k = Len(log)
              /\ \A j, k \in DOMAIN log :
                    j < k =>
                       /\ log[j].step <= log[k].step
                       /\ log[j].step = log[k].step =>
                             /\ log[j].fn # log[k].fn
                             /\ log[k].fn # "condition"
                             /\ log[j].fn = "handler" => log[k].fn \in {"hook", "rollback"}
    /\ \A c \in Calls : invocations[c] - Len(outcomes[c]) \in {0, 1}

\* the handler of the last step is running, called after every earlier
\* condition and handler of the run has settled
SequentialExecutionWitness ==
    \E r \in Runs :
        /\ Len(steps) = MaxSteps
        /\ Len(wfCalls[r]) > MaxSteps
        /\ wfCalls[r][Len(wfCalls[r])].fn = "handler"
        /\ wfCalls[r][Len(wfCalls[r])].step = MaxSteps
        /\ wfCalls[r][Len(wfCalls[r])].out = "pending"
        /\ \A k \in 1..(Len(wfCalls[r]) - 1) : wfCalls[r][k].out # "pending"

HookCalls(log, i) == {k \in DOMAIN log : log[k].fn = "hook" /\ log[k].step = i}

\* the step loop in m without its call log
Unlogged(m) == [m EXCEPT !.calls = <<>>]

\* C25: when the condition or handler of a step that declares an onError hook
\* throws, the hook is the next call of the run, made once, with the step's
\* error and the current payload, and step:error of that step is emitted only
\* after the hook has settled; a hook that throws leaves the loop where a hook
\* that returns leaves it (same events, StepResult with the step's own error,
\* same strategy applied); a hook is called only for a step whose condition or
\* handler threw, never for a step whose handler returned or that was skipped.
StepErrorHook ==
    \A r \in Runs :
        LET log == wfCalls[r]
        IN  /\ \A k \in ThrowingCalls(log) :
                  steps[log[k].step].onError =>
                     /\ k < Len(log)
                     /\ log[k + 1].fn = "hook"
                     /\ log[k + 1].step = log[k].step
                     /\ log[k + 1].data = log[k].data
            /\ \A i \in DOMAIN steps : Cardinality(HookCalls(log, i)) <= 1
            /\ \A k \in DOMAIN log :
                  log[k].fn = "hook" =>
                     /\ steps[log[k].step].onError
                     /\ k > 1
                     /\ log[k - 1].step = log[k].step
                     /\ log[k - 1].out = "threw"
            /\ phase[r] = "hook" =>
                  /\ log[Len(log)].fn = "hook"
                  /\ log[Len(log)].out = "pending"
                  /\ stepError[r] = ToError(log[Len(log) - 1].error)
                  /\ Unlogged(Settle(r, Machine(r), Throws(PlainError))) =
                        Unlogged(Settle(r, Machine(r), Returns("null")))
            /\ \A e \in DOMAIN wfEvents :
                  (wfEvents[e].type = "step:error" /\ wfEvents[e].run = r) =>
                     \A i \in DOMAIN steps :
                        (steps[i].name = wfEvents[e].step /\ steps[i].onError) =>
                           \E k \in HookCalls(log, i) : log[k].out # "pending"
            /\ \A n \in DOMAIN stepResults[r] :
                  \A i \in DOMAIN steps :
                     steps[i].name = stepResults[r][n].step =>
                        IF stepResults[r][n].success
                        THEN HookCalls(log, i) = {}
                        ELSE \A k \in HookCalls(log, i) :
                                stepResults[r][n].error = ToError(log[k - 1].error)

AgentStarts == {i \in DOMAIN agentEvents : agentEvents[i].type = "agent:start"}

\* validation or the work function of call c has run
BodyEntered(c) ==
    \/ invocations[c] > 0
    \/ caught[c] # NoError
    \/ timer[c] # "unset"
    \/ EventsOf(c, {"agent:complete", "agent:error"}) # {}

\* C26: execute on an agent that is not initialized runs initialize() first:
\* the agent becomes initialized and agent:start is emitted while neither
\* validation nor the work function of the call has run, and agent:start
\* precedes the call's terminal event; execute on an initialized agent does
\* not initialize again (no initialize() call, no agent:start); when
\* initialize() fails, the call runs neither validation nor the work function.
LazyInitialization ==
    /\ [](\A c \in Calls :
            /\ pc[c] = "awaitInit" => (~BodyEntered(c) /\ EventsOf(c, {"agent:start"}) # {})
            /\ BodyEntered(c) =>
                  /\ AgentStarts # {}
                  /\ \A j \in EventsOf(c, {"agent:complete", "agent:error"}) :
                        \E i \in AgentStarts : i < j
            /\ Cardinality(EventsOf(c, {"agent:start"})) <= 1
            /\ (pc[c] = "rejected" /\ EventsOf(c, {"agent:complete", "agent:error"}) = {}) =>
                  ~BodyEntered(c))
    /\ [][\A c \in Calls :
            (pc[c] = "idle" /\ pc'[c] # "idle") =>
               IF initialized
               THEN /\ inits' = inits
                    /\ initialized'
                    /\ AgentStarts' = AgentStarts
                    /\ pc'[c] # "awaitInit"
               ELSE /\ invocations'[c] = 0
                    /\ caught'[c] = NoError
                    /\ \/ /\ inits' = inits + 1
                          /\ initialized'
                          /\ agentEvents' = Append(agentEvents, Event("agent:start", c))
                          /\ pc'[c] \in {"awaitInit", "rejected"}
                       \/ /\ pc'[c] = "rejected"
                          /\ rejection'[c] = InitError
                          /\ UNCHANGED <<initialized, inits, agentEvents>>
      ]_vars

\* a call that initialized the agent itself has run the work function and
\* has returned
LazyInitializationWitness ==
    \E c \in Calls :
        /\ EventsOf(c, {"agent:start"}) # {}
        /\ invocations[c] > 0
        /\ pc[c] = "returned"
        /\ inits = 1

\* a constructed BaseAgent with its default retry configuration and no
\* listener; the caller makes one execute call and passes a context
ContextInit ==
    /\ initialized = FALSE
    /\ retry = DefaultRetry
    /\ agentThrowOn = {}
    /\ agentEvents = <<>>
    /\ inits = 0
    /\ callers = {1}
    /\ CallInit
    /\ delayIn = DelayIdle
    /\ delayOut = Undefined
    /\ WorkflowUnused
    /\ NoCopies

ContextNext ==
    \/ Initialize
    \/ Close
    \/ \E c \in Calls, in \in Inputs, ctx \in ContextArgs : ExecuteWithContext(c, in, ctx)
    \/ \E c \in Calls : ResumeAfterInit(c)
    \/ \E c \in Calls : WorkSettles(c)
    \/ \E c \in Calls : SleepEnds(c)
    \/ \E c \in Calls : TimerFires(c)
    \/ \E c \in Calls : ResumeAfterRace(c)

ContextSpec == ContextInit /\ [][ContextNext]_vars

\* C27: the context handed to the work function is newly built: the id of
\* the call, data = the input, metadata = the caller's metadata or empty, and
\* an empty history, whatever context argument the caller passed.
FreshExecutorContext ==
    \A c \in Calls :
        invocations[c] > 0 =>
            /\ executionContext[c].id = c
            /\ executionContext[c].data = input[c]
            /\ executionContext[c].metadata =
                  IF contextArg[c].metadata = "undefined" THEN "empty"
                  ELSE contextArg[c].metadata
            /\ executionContext[c].history = <<>>

\* AgentWorkflow: one instance under the default strategy, no listener; the
\* caller registers steps, makes one execute call, inspects the context with
\* getContext, changes the objects it got, and clears the workflow
CopyInit ==
    /\ AgentUnused
    /\ steps = <<>>
    /\ onError = "stop"
    /\ context = NullContext
    /\ wfThrowOn = {}
    /\ wfEvents = <<>>
    /\ runners = {1}
    /\ stepsUsed = FALSE
    /\ RunInit
    /\ NoCopies

CopyNext ==
    \/ step(FALSE, FALSE)
    \/ \E r \in Runs : WfExecute(r, RunInput(r))
    \/ \E r \in Runs : HandlerSettles(r)
    \/ \E r \in Runs : WfTimerFires(r)
    \/ \E r \in Runs : WfResume(r)
    \/ clear
    \/ getContext
    \/ CopySetData
    \/ CopyHistoryPush
    \/ CopyHistoryClear

CopySpec == CopyInit /\ [][CopyNext]_vars


\* C28: getContext returns a defensive copy: the history of the live context
\* holds the results its run has pushed and nothing a caller put there or
\* took away through an object from getContext, the live data is the input or
\* what a handler of the run returned, and getContext returns null exactly
\* when no execute call has been made since construction or the last clear().
DefensiveContextCopy ==
    /\ [](context # NullContext =>
            /\ \A k \in DOMAIN context.history :
                  \E r \in Runs : \E n \in DOMAIN stepResults[r] :
                     context.history[k] = stepResults[r][n]
            /\ Len(context.history) >= Len(stepResults[context.id])
            /\ context.data \in {wfInput[context.id]} \cup DataWritten(context.id))
    /\ [][(contextCopy' # contextCopy /\ contextCopy'.data # "changed") =>
             /\ contextCopy'.held
             /\ contextCopy'.null <=> ~stepsUsed
             /\ context' = context
      ]_vars

\* either component with its default configuration and no listener: the
\* caller makes one execute call, and at any time gets the configuration
\* with getConfig and changes fields of the object it got
ConfigInit ==
    \/ ContextInit
    \/ CopyInit

ConfigNext ==
    \/ /\ callers # {}
       /\ \/ Initialize
          \/ Close
          \/ \E c \in Calls, in \in Inputs : Execute(c, in)
          \/ \E c \in Calls : ResumeAfterInit(c)
          \/ \E c \in Calls : WorkSettles(c)
          \/ \E c \in Calls : SleepEnds(c)
          \/ \E c \in Calls : TimerFires(c)
          \/ \E c \in Calls : ResumeAfterRace(c)
          \/ getConfig
          \/ CopySetTimeout
          \/ CopySetRetry
          \/ \E n \in 1..MaxAttemptsBound : CopySetMaxAttempts(n)
    \/ /\ runners # {}
       /\ \/ step(FALSE, FALSE)
          \/ \E r \in Runs : WfExecute(r, RunInput(r))
          \/ \E r \in Runs : HandlerSettles(r)
          \/ \E r \in Runs : WfTimerFires(r)
          \/ \E r \in Runs : WfResume(r)
          \/ WfGetConfig
          \/ \E s \in Strategies : WfCopySetOnError(s)
          \/ WfCopySetTimeout

ConfigSpec == ConfigInit /\ [][ConfigNext]_vars

\* C29: getConfig returns a defensive copy: no step changes the retry
\* settings of the agent or the failure strategy of the workflow, so every
\* execute call made after a caller has changed the object from getConfig
\* behaves as configured at construction: a call whose retry loop gave up has
\* invoked the work function maxAttempts times, and no call more often.
DefensiveConfigCopy ==
    /\ [](\A c \in Calls :
            /\ invocations[c] <= DefaultRetry.maxAttempts
            /\ loop[c] = "rejected" => invocations[c] = DefaultRetry.maxAttempts)
    /\ [][retry' = retry /\ onError' = onError]_vars

\* AgentWorkflow: one instance under the default strategy, no listener; the
\* caller registers steps, makes execute calls one after the other has
\* returned, and clears the workflow at any time
ClearInit ==
    /\ AgentUnused
    /\ steps = <<>>
    /\ onError = "stop"
    /\ context = NullContext
    /\ wfThrowOn = {}
    /\ wfEvents = <<>>
    /\ runners = {1, 2}
    /\ stepsUsed = FALSE
    /\ RunInit
    /\ NoCopies

ClearNext ==
    \/ step(FALSE, FALSE)
    \/ \E r \in Runs :
          /\ \A q \in Runs : q < r => wfPc[q] \in {"returned", "rejected"}
          /\ WfExecute(r, RunInput(r))
    \/ \E r \in Runs : HandlerSettles(r)
    \/ \E r \in Runs : WfTimerFires(r)
    \/ \E r \in Runs : WfResume(r)
    \/ clear

ClearSpec == ClearInit /\ [][ClearNext]_vars

\* C30: clear() returns the workflow to its state before any step was
\* registered: the step list is empty and there is no context (getContext
\* gives null), the strategy and the listeners are kept; an execute call made
\* on an empty step list, with no clear() while it runs, calls no handler and
\* returns success with data = its input and no step result; and the loop of
\* every execute call iterates the steps registered since the last clear(),
\* and calls no other.
ClearResets ==
    /\ [](\A r \in Runs :
            \A k \in DOMAIN wfCalls[r] : wfCalls[r][k].step <= Len(loopSteps[r]))
    /\ [][/\ (stepsUsed /\ ~stepsUsed') =>
                /\ steps' = <<>>
                /\ context' = NullContext
                /\ ContextCopy(context') = [NoContextCopy EXCEPT !.held = TRUE]
                /\ onError' = onError
                /\ wfThrowOn' = wfThrowOn
          /\ \A r \in Runs :
                /\ (wfPc[r] = "idle" /\ wfPc'[r] # "idle") => loopSteps'[r] = steps
                /\ (wfPc[r] = "racing" /\ wfPc'[r] # "racing" /\ loopSteps[r] = <<>>
                      /\ stepsUsed) =>
                      /\ wfPc'[r] = "returned"
                      /\ wfResult'[r] = WfSuccess(wfInput[r])
                      /\ stepResults'[r] = <<>>
                      /\ wfCalls'[r] = <<>>
      ]_vars

(***************************************************************************)
(* The event channel alone                                                 *)
(***************************************************************************)
ChannelInit ==
    /\ AgentUnused
    /\ WorkflowUnused
    /\ NoCopies

ChannelNext ==
    \/ \E l \in Listeners : onEvent(l)
    \/ \E l \in Listeners : offEvent(l)
    \/ emitEvent

ChannelSpec == ChannelInit /\ [][ChannelNext]_vars

\* the calls of listener l made by emission n
DeliveriesOf(n, l) ==
    {i \in DOMAIN deliveries :
        deliveries[i].emission = n /\ deliveries[i].listener = l}

\* every emission calls a listener at most once
DeliveredAtMostOnce ==
    \A n \in 1..emitted, l \in Listeners : Cardinality(DeliveriesOf(n, l)) <= 1

\* the calls are made in emission order, all of them within the emitEvent call
DeliveredInOrder ==
    /\ \A i, j \in DOMAIN deliveries :
          i <= j => deliveries[i].emission <= deliveries[j].emission
    /\ \A i \in DOMAIN deliveries : deliveries[i].emission \in 1..emitted

\* a step calls only listeners that are in the array, so none that was
\* removed by offEvent and not registered again
DeliveredToRegistered ==
    \A i \in DOMAIN deliveries' :
        i > Len(deliveries) =>
            \E k \in DOMAIN listeners : listeners[k] = deliveries'[i].listener

\* C31: every emitted event is delivered to each listener registered through
\* onEvent at most once per emission, synchronously and in emission order,
\* and a listener removed by offEvent receives no later event.
EventDelivery ==
    /\ [](DeliveredAtMostOnce /\ DeliveredInOrder)
    /\ [][DeliveredToRegistered]_vars

(***************************************************************************)
(* CRMAgent: a BaseAgent whose work function calls a CRM provider           *)
(***************************************************************************)
\* new CRMError(message, code, provider, details)
CRMError(message, code, provider) ==
    [id |-> code, kind |-> "CRMError", code |-> code, message |-> message,
     str |-> "CRMError", truthy |-> TRUE, details |-> "cause", provider |-> provider]

\* what SalesforceProvider throws: from initialize, from ensureInitialized,
\* from the catch block of an operation
InitFailed == CRMError("Failed to initialize Salesforce", "INIT_FAILED", "salesforce")
NotInitialized == CRMError("Provider not initialized", "NOT_INITIALIZED", "salesforce")
CreateFailed == CRMError("Failed to create lead", "CREATE_FAILED", "salesforce")

\* the input that createLead passes to execute, the record the provider returns
CreateLeadInput == "lead"
CrmRecord == "record"

\* CRMAgent.run: the provider operation returns its record or throws a
\* CRMError; a provider that is not initialized throws NOT_INITIALIZED
ProviderSettles(c) ==
    IF providerInitialized
    THEN RunSettles(c, {CrmRecord}, {CreateFailed})
    ELSE RunSettles(c, {}, {NotInitialized})

\* the caller calls agent.initialize(): CRMAgent.initialize awaits
\* provider.initialize()
CrmInitialize ==
    /\ crmPc[ExplicitInit] = "none"
    /\ crmPc' = [crmPc EXCEPT ![ExplicitInit] = "provider"]
    /\ UNCHANGED <<providerInitialized, pending, configCopy, wfConfigCopy, contextCopy,
                   channelVars, agentVars, callVars, delayVars, wfVars, runVars>>

\* a CRMAgent.initialize that goes on to super.initialize() although
\* provider.initialize() has thrown
ProviderInitSettlesIgnoringFailure(o, ok) ==
    /\ crmPc[o] = "provider"
    /\ providerInitialized' = (providerInitialized \/ ok)
    /\ crmPc' = [crmPc EXCEPT ![o] = "queued"]
    /\ pending' = Append(pending, o)
    /\ UNCHANGED <<callVars, configCopy, wfConfigCopy, contextCopy, channelVars,
                   agentVars, delayVars, wfVars, runVars>>

\* provider.initialize() settles: it sets provider.initialized and returns, the
\* continuation of CRMAgent.initialize is queued; or it throws INIT_FAILED,
\* which rejects initialize() and the execute call that awaits it
ProviderInitSettles(o, ok) ==
    /\ crmPc[o] = "provider"
    /\ IF ok
       THEN /\ providerInitialized' = TRUE
            /\ crmPc' = [crmPc EXCEPT ![o] = "queued"]
            /\ pending' = Append(pending, o)
            /\ UNCHANGED <<pc, rejection>>
       ELSE /\ crmPc' = [crmPc EXCEPT ![o] = "failed"]
            /\ IF o \in Calls
               THEN /\ pc' = [pc EXCEPT ![o] = "rejected"]
                    /\ rejection' = [rejection EXCEPT ![o] = InitFailed]
               ELSE UNCHANGED <<pc, rejection>>
            /\ UNCHANGED <<providerInitialized, pending>>
    /\ UNCHANGED <<input, attempt, invocations, outcomes, lastError, loop, loopResult,
                   sleeps, timer, order, caught, result, contextArg, executionContext>>
    /\ UNCHANGED <<configCopy, wfConfigCopy, contextCopy, channelVars, agentVars,
                   delayVars, wfVars, runVars>>

\* CRMAgent.initialize resumes: super.initialize() sets this.initialized and
\* emits agent:start; the execute call that awaited initialize() goes on
CrmInitResume(o) ==
    /\ pending # <<>> /\ Head(pending) = o /\ o # CloseTask
    /\ pending' = Tail(pending)
    /\ crmPc' = [crmPc EXCEPT ![o] = "done"]
    /\ initialized' = TRUE
    /\ inits' = inits + 1
    /\ agentEvents' = Append(agentEvents, Event("agent:start", o))
    /\ IF o \in Calls
       THEN IF EmitThrows("agent:start")
            THEN /\ pc' = [pc EXCEPT ![o] = "rejected"]
                 /\ rejection' = [rejection EXCEPT ![o] = ListenerError]
            ELSE /\ pc' = [pc EXCEPT ![o] = "awaitInit"]
                 /\ UNCHANGED rejection
       ELSE UNCHANGED <<pc, rejection>>
    /\ UNCHANGED <<input, attempt, invocations, outcomes, lastError, loop, loopResult,
                   sleeps, timer, order, caught, result, contextArg, executionContext>>
    /\ UNCHANGED <<providerInitialized, retry, agentThrowOn, callers, configCopy,
                   wfConfigCopy, contextCopy, channelVars, delayVars, wfVars, runVars>>

\* the caller calls agent.close(): provider.close() clears provider.initialized
\* before CRMAgent.close reaches its first await
CrmClose ==
    /\ crmPc[CloseTask] = "none"
    /\ providerInitialized' = FALSE
    /\ crmPc' = [crmPc EXCEPT ![CloseTask] = "queued"]
    /\ pending' = Append(pending, CloseTask)
    /\ UNCHANGED <<configCopy, wfConfigCopy, contextCopy, channelVars, agentVars,
                   callVars, delayVars, wfVars, runVars>>

\* CRMAgent.close resumes: super.close() removes the listeners and clears
\* this.initialized
CrmCloseResume ==
    /\ pending # <<>> /\ Head(pending) = CloseTask
    /\ pending' = Tail(pending)
    /\ crmPc' = [crmPc EXCEPT ![CloseTask] = "done"]
    /\ initialized' = FALSE
    /\ agentThrowOn' = {}
    /\ UNCHANGED <<providerInitialized, retry, agentEvents, inits, callers, callVars,
                   configCopy, wfConfigCopy, contextCopy, channelVars, delayVars,
                   wfVars, runVars>>

\* CRMAgent.createLead(lead) up to its first await: execute({operation, data}),
\* which awaits this.initialize() first when the agent is not initialized
CrmExecute(c) ==
    /\ c \in callers
    /\ pc[c] = "idle"
    /\ input' = [input EXCEPT ![c] = CreateLeadInput]
    /\ UNCHANGED contextArg
    /\ \/ /\ ~initialized
          /\ crmPc' = [crmPc EXCEPT ![c] = "provider"]
          /\ pc' = [pc EXCEPT ![c] = "awaitProvider"]
          /\ UNCHANGED <<attempt, invocations, loop, loopResult, order, timer,
                         result, caught, rejection, executionContext, agentEvents>>
       \/ /\ initialized
          /\ ExecuteBody(c, CreateLeadInput, NoContextArg)
          /\ UNCHANGED crmPc
    /\ UNCHANGED <<initialized, inits, retry, agentThrowOn, callers, outcomes, lastError,
                   sleeps, providerInitialized, pending, configCopy, wfConfigCopy,
                   contextCopy, channelVars, delayVars, wfVars, runVars>>

\* what the createLead call has settled with: result.data returned,
\* result.error thrown, or the rejection of execute
createLead(c) ==
    IF pc[c] = "returned"
    THEN IF result[c].success THEN Returns(result[c].data) ELSE Throws(result[c].error)
    ELSE Throws(rejection[c])

\* a constructed CRMAgent (default retry or a single attempt), two createLead
\* calls ahead, made one after the other
CrmInit ==
    /\ initialized = FALSE
    /\ retry \in {DefaultRetry, RetryConfig(1, 100, "none", Undefined)}
    /\ agentThrowOn = {}
    /\ agentEvents = <<>>
    /\ inits = 0
    /\ callers = Calls
    /\ CallInit
    /\ delayIn = DelayIdle
    /\ delayOut = Undefined
    /\ WorkflowUnused
    /\ NoCopies

CrmNext ==
    \/ CrmInitialize
    \/ \E o \in CrmTasks, ok \in BOOLEAN : ProviderInitSettles(o, ok)
    \/ \E o \in CrmTasks : CrmInitResume(o)
    \/ CrmClose
    \/ CrmCloseResume
    \/ \E c \in Calls :
          /\ \A q \in Calls : q < c => pc[q] \in {"returned", "rejected"}
          /\ CrmExecute(c)
    \/ \E c \in Calls : ResumeAfterInit(c)
    \/ \E c \in Calls : ProviderSettles(c)
    \/ \E c \in Calls : SleepEnds(c)
    \/ \E c \in Calls : TimerFires(c)
    \/ \E c \in Calls : ResumeAfterRace(c)

CrmSpec == CrmInit /\ [][CrmNext]_vars

\* the provider operation of call c failed: every attempt threw and the retry
\* loop rejected before the timer fired; it succeeded: the loop resolved first
ProviderFailed(c) ==
    pc[c] = "returned" /\ order[c] # <<>> /\ order[c][1] = "work" /\ loop[c] = "rejected"

ProviderSucceeded(c) ==
    pc[c] = "returned" /\ order[c] # <<>> /\ order[c][1] = "work" /\ loop[c] = "resolved"

\* createLead returns the record of the provider when the operation succeeds
RecordReturned ==
    \A c \in Calls : ProviderSucceeded(c) => createLead(c) = Returns(loopResult[c].data)

\* C32: when the provider operation fails with a CRMError, the convenience
\* method rejects with a CRMError that carries the provider's code and
\* provider name; when the operation succeeds it returns the provider's
\* record.
CrmErrorSurface ==
    /\ RecordReturned
    /\ \A c \in Calls :
          (ProviderFailed(c) /\ lastError[c].kind = "CRMError") =>
              /\ createLead(c).error.kind = "CRMError"
              /\ createLead(c).error.code = lastError[c].code
              /\ createLead(c).error.provider = lastError[c].provider

\* no initialize, execute or close call is in progress
CrmQuiescent ==
    /\ \A o \in CrmTasks : crmPc[o] \in {"none", "done", "failed"}
    /\ \A c \in Calls : pc[c] \in {"idle", "returned", "rejected"}

AgentStartsEmitted ==
    Cardinality({i \in DOMAIN agentEvents : agentEvents[i].type = "agent:start"})

\* a step that sets this.initialized, or emits agent:start, is the
\* continuation of an initialize() whose provider.initialize() has returned
InitializedAfterProvider ==
    (initialized' # initialized \/ AgentStartsEmitted' # AgentStartsEmitted) =>
        \/ /\ ~initialized'
           /\ AgentStartsEmitted' = AgentStartsEmitted
        \/ /\ initialized'
           /\ pending # <<>> /\ crmPc[Head(pending)] = "queued"
           /\ Head(pending) # CloseTask
           /\ AgentStartsEmitted' = AgentStartsEmitted + 1

\* a failing provider.initialize() leaves the agent as it was, and the
\* execute call that awaited it ends without having run the operation
FailedInitLeavesAgent ==
    \A o \in CrmTasks :
        (crmPc[o] = "provider" /\ crmPc'[o] = "failed") =>
            /\ initialized' = initialized
            /\ agentEvents' = agentEvents
            /\ o \in Calls => (pc'[o] = "rejected" /\ invocations'[o] = 0)

\* an execute call entered on an agent that is not initialized runs
\* initialize() again, provider first, and nothing of the operation before
\* initialize() has returned
InitializesAgain ==
    \A c \in Calls :
        /\ (pc[c] = "idle" /\ pc'[c] # "idle" /\ ~initialized) =>
              /\ crmPc'[c] = "provider"
              /\ invocations'[c] = 0 /\ timer'[c] = "unset"
        /\ (invocations[c] = 0 /\ invocations'[c] > 0) =>
              \/ crmPc[c] = "done"
              \/ crmPc[c] = "none" /\ initialized

\* C39: the initialized flag of a CRMAgent becomes true, and agent:start is
\* emitted, only after provider.initialize() has succeeded; a failing
\* provider initialization leaves the agent uninitialized and a later
\* execute initializes again before the operation; whenever no initialize,
\* execute or close is in progress, agent initialized implies provider
\* initialized.
CrmInitialization ==
    /\ [](CrmQuiescent => (initialized => providerInitialized))
    /\ [][InitializedAfterProvider /\ FailedInitLeavesAgent /\ InitializesAgain]_vars

\* the initialization of the first call failed, the second call initialized
\* the agent and ran its operation
CrmInitializationWitness ==
    /\ crmPc[1] = "failed" /\ ~(1 \in {c \in Calls : invocations[c] > 0})
    /\ crmPc[2] = "done" /\ pc[2] = "returned" /\ invocations[2] > 0
    /\ CrmQuiescent /\ initialized /\ providerInitialized

(***************************************************************************)
(* The lead-qualification example: five steps on one AgentWorkflow          *)
(* (onError 'stop').  A string is the sequence of its characters; an        *)
(* absent field and the empty string, both falsy, are <<>>.                 *)
(***************************************************************************)
UpperCase == <<"A", "B", "C", "D", "E", "F", "G", "H", "I", "J", "K", "L", "M",
               "N", "O", "P", "Q", "R", "S", "T", "U", "V", "W", "X", "Y", "Z">>
LowerCase == <<"a", "b", "c", "d", "e", "f", "g", "h", "i", "j", "k", "l", "m",
               "n", "o", "p", "q", "r", "s", "t", "u", "v", "w", "x", "y", "z">>

\* String.prototype.toLowerCase and String.prototype.includes
toLowerCase(s) ==
    [k \in DOMAIN s |->
        IF \E i \in DOMAIN UpperCase : UpperCase[i] = s[k]
        THEN LowerCase[CHOOSE i \in DOMAIN UpperCase : UpperCase[i] = s[k]]
        ELSE s[k]]
includes(s, t) ==
    \E k \in 0..(Len(s) - Len(t)) : SubSeq(s, k + 1, k + Len(t)) = t

decisionMakerTitles ==
    {<<"c", "e", "o">>, <<"c", "t", "o">>, <<"v", "p">>,
     <<"d", "i", "r", "e", "c", "t", "o", "r">>, <<"f", "o", "u", "n", "d", "e", "r">>}
targetIndustries ==
    {<<"t", "e", "c", "h", "n", "o", "l", "o", "g", "y">>,
     <<"s", "o", "f", "t", "w", "a", "r", "e">>, <<"s", "a", "a", "s">>}

\* field values of the leads that are run
Emails == {<<>>, <<"j", "@", "x", ".", "i", "o">>}
Companies ==
    {<<>>, <<"S", "m", "a", "l", "l", "C", "o">>,
     <<"T", "e", "n", "L", "e", "t", "t", "e", "r", "s">>,
     <<"E", "l", "e", "v", "e", "n", "C", "h", "a", "r", "s">>,
     <<"A", "c", "m", "e", "C", "o", "r", "p", "o", "r", "a", "t", "i", "o", "n">>}
Phones == {<<>>, <<"+", "1", "5", "5", "5">>}
Titles == {<<>>, <<"C", "T", "O">>, <<"M", "a", "n", "a", "g", "e", "r">>,
           <<"D", "o", "c", "t", "o", "r">>}
Industries == {<<>>, <<"S", "a", "a", "S">>, <<"R", "e", "t", "a", "i", "l">>}

Lead(email, company, title, phone, industry) ==
    [email |-> email, company |-> company, title |-> title, phone |-> phone,
     industry |-> industry, score |-> Undefined, crmId |-> "undefined",
     status |-> "undefined"]
Leads ==
    {Lead(e, c, t, p, i) :
        e \in Emails, c \in Companies, t \in Titles, p \in Phones, i \in Industries}

\* the handler of calculate-score
calculateScore(lead) ==
    (IF lead.company # <<>> /\ Len(lead.company) > 10 THEN 20 ELSE 0)
    + (IF lead.phone # <<>> THEN 15 ELSE 0)
    + (IF lead.title # <<>>
          /\ \E t \in decisionMakerTitles : includes(toLowerCase(lead.title), t)
       THEN 30 ELSE 0)
    + (IF lead.industry # <<>> /\ toLowerCase(lead.industry) \in targetIndustries
       THEN 35 ELSE 0)

ValidationError == ErrorValue("validation", "Error", "none",
                              "Email and company are required",
                              "Error: Email and company are required", TRUE, "none")

\* what the handler of step i does on context.data: validate-lead,
\* calculate-score, create-in-crm (the id of the CRM record, or a demo id when
\* createLead has thrown), mark-as-qualified, mark-as-unqualified
LeadHandler(i, lead) ==
    IF i = 1
    THEN IF lead.email = <<>> \/ lead.company = <<>>
         THEN {Throws(ValidationError)} ELSE {Returns(lead)}
    ELSE IF i = 2 THEN {Returns([lead EXCEPT !.score = calculateScore(lead)])}
    ELSE IF i = 3 THEN {Returns([lead EXCEPT !.crmId = id]) : id \in {"00Q", "demo"}}
    ELSE IF i = 4 THEN {Returns([lead EXCEPT !.status = "Qualified"])}
    ELSE {Returns([lead EXCEPT !.status = "Unqualified"])}

\* conditions with two thresholds: leads from 50 to 59 are marked twice
LeadConditionTwoThresholds(i, lead) ==
    IF i = 4 THEN lead.score >= 50 ELSE lead.score < 60

\* the conditions of mark-as-qualified and mark-as-unqualified
LeadCondition(i, lead) ==
    IF i = 4 THEN lead.score >= 60 ELSE lead.score < 60

\* the steps that main registers: three step() calls, two when() calls
LeadSteps ==
    [i \in 1..5 |-> WorkflowStep(StepName(i), i \in {4, 5}, FALSE)]

\* executeStep after the handler has returned an object
HandlerReturnedObject(r, m, value) ==
    LET name == m.steps[m.idx].name
        m1 == Emitted([m EXCEPT !.ctx.data = value], "step:complete", r, name)
    IN  IF WfEmitThrows("step:complete")
        THEN StepCatch(r, m1, ListenerError)
        ELSE RecordResult(r, m1, StepResult(name, TRUE, value, NoError))

\* the awaited condition of step 4 or 5 settles
LeadConditionSettles(r) ==
    /\ phase[r] = "condition"
    /\ Commit(r, Settle(r, Machine(r),
                        Returns(IF LeadCondition(idx[r], context.data)
                                THEN "true" ELSE "false")))
    /\ UNCHANGED <<steps, onError, wfThrowOn, runners, stepsUsed, wfPc, wfInput, wfTimer,
                   wfResult, wfRejection, baseVars>>

\* the awaited handler of a step settles
LeadHandlerSettles(r) ==
    /\ phase[r] = "handler"
    /\ \E o \in LeadHandler(idx[r], context.data) :
          IF o.out = "threw"
          THEN Commit(r, Settle(r, Machine(r), o))
          ELSE Commit(r, HandlerReturnedObject(r, Logged(Machine(r), o), o.value))
    /\ UNCHANGED <<steps, onError, wfThrowOn, runners, stepsUsed, wfPc, wfInput, wfTimer,
                   wfResult, wfRejection, baseVars>>

\* main: the workflow built, one lead about to be processed
LeadInit ==
    /\ AgentUnused
    /\ steps = LeadSteps
    /\ onError = "stop"
    /\ context = NullContext
    /\ wfThrowOn = {}
    /\ wfEvents = <<>>
    /\ runners = {1}
    /\ stepsUsed = FALSE
    /\ RunInit
    /\ NoCopies

LeadNext ==
    \/ \E lead \in Leads : WfExecute(1, lead)
    \/ LeadConditionSettles(1)
    \/ LeadHandlerSettles(1)
    \/ WfTimerFires(1)
    \/ WfResume(1)

LeadSpec == LeadInit /\ [][LeadNext]_vars

\* the steps of run r that are reported as completed: result.steps.filter(s => s.success)
StepsCompleted(r) == {i \in DOMAIN stepResults[r] : stepResults[r][i].success}

\* C33: a successful run of the example for a qualifying lead reports 5 step
\* results of which exactly 4 have success = true ('Steps completed: 4/5'):
\* the skipped conditional step is not counted as completed.
LeadStepsCompleted ==
    \A r \in Runs :
        (wfPc[r] = "returned" /\ wfResult[r].success /\ wfResult[r].data.score >= 60) =>
            /\ Len(stepResults[r]) = 5
            /\ Cardinality(StepsCompleted(r)) = 4
            /\ 5 \notin StepsCompleted(r)

\* the factors of the scoring rule for the field values that are run
CompanyFactor(company) ==
    IF company \in {<<"E", "l", "e", "v", "e", "n", "C", "h", "a", "r", "s">>,
                    <<"A", "c", "m", "e", "C", "o", "r", "p", "o", "r", "a", "t", "i", "o", "n">>}
    THEN 20 ELSE 0
TitleFactor(title) ==
    IF title \in {<<"C", "T", "O">>, <<"D", "o", "c", "t", "o", "r">>} THEN 30 ELSE 0
IndustryFactor(industry) == IF industry = <<"S", "a", "a", "S">> THEN 35 ELSE 0
PhoneFactor(phone) == IF phone = <<>> THEN 0 ELSE 15

PassesValidation(lead) == lead.email # <<>> /\ lead.company # <<>>

\* handler calls that run r made for the steps of set s
LeadHandlerCalls(r, s) ==
    {k \in DOMAIN wfCalls[r] : wfCalls[r][k].fn = "handler" /\ wfCalls[r][k].step \in s}

AcmeLead ==
    Lead(<<"j", "@", "x", ".", "i", "o">>,
         <<"A", "c", "m", "e", "C", "o", "r", "p", "o", "r", "a", "t", "i", "o", "n">>,
         <<"C", "T", "O">>, <<"+", "1", "5", "5", "5">>, <<>>)

TimedOut(r) ==
    wfPc[r] = "returned" /\ wfOrder[r] # <<>> /\ wfOrder[r][1] = "timer"

\* the events that a step appends for run r
NewEventsOf(r) ==
    {i \in DOMAIN wfEvents' : i > Len(wfEvents) /\ wfEvents'[i].run = r}

\* the firing of the timer and the return of the TIMEOUT failure leave the
\* step loop where it is
TimeoutLeavesLoop ==
    \A r \in Runs :
        (\/ wfTimer[r] = "armed" /\ wfTimer'[r] = "fired"
         \/ wfPc[r] = "racing" /\ wfPc'[r] = "returned" /\ wfOrder[r][1] = "timer") =>
            /\ phase'[r] = phase[r] /\ idx'[r] = idx[r]
            /\ stepResults'[r] = stepResults[r] /\ wfCalls'[r] = wfCalls[r]

\* the loop of a run that has timed out emits step events only, leaves the
\* result alone, and ends after the last step or on a failed step under
\* stop or rollback (or on a listener's exception, C11)
AbandonedLoopGoesOn ==
    \A r \in Runs :
        TimedOut(r) =>
            /\ \A i \in NewEventsOf(r) :
                  wfEvents'[i].type \in {"step:start", "step:complete", "step:error"}
            /\ wfPc'[r] = "returned" /\ wfResult'[r] = wfResult[r]
            /\ (phase[r] # "resolved" /\ phase'[r] = "resolved") =>
                  /\ idx'[r] = Len(loopSteps[r]) + 1
                  /\ onError = "continue" => Len(stepResults'[r]) = Len(loopSteps[r])
            /\ (phase[r] # "rejected" /\ phase'[r] = "rejected") =>
                  \/ /\ onError \in {"stop", "rollback"}
                     /\ stepResults'[r] # <<>>
                     /\ ~stepResults'[r][Len(stepResults'[r])].success
                  \/ loopError'[r] = ListenerError

\* C35: a workflow timeout does not stop the step loop: after workflow:error
\* (TIMEOUT) has been emitted and execute has returned, the awaited handler
\* and the remaining steps still run and emit step events, until the loop
\* ends or a step fails under stop or rollback, and no second terminal event
\* is emitted for that run.
AbandonedStepLoop ==
    /\ [](\A r \in Runs :
            TimedOut(r) =>
               /\ wfResult[r] = WfFailure(WorkflowTimeoutError)
               /\ WfEventsOf(r, {"workflow:complete"}) = {}
               /\ Cardinality(WfEventsOf(r, {"workflow:error"})) = 1)
    /\ [][TimeoutLeavesLoop /\ AbandonedLoopGoesOn]_vars

\* after the TIMEOUT failure was returned while the first handler was awaited,
\* the second step was started and completed
AbandonedStepLoopWitness ==
    \E r \in Runs :
        /\ TimedOut(r) /\ phase[r] = "resolved" /\ Len(loopSteps[r]) = 2
        /\ \E e \in WfEventsOf(r, {"workflow:error"}) :
              /\ \E i \in WfEventsOf(r, {"step:start"}) :
                    i > e /\ wfEvents[i].step = StepName(2)
              /\ \E i \in WfEventsOf(r, {"step:complete"}) :
                    i > e /\ wfEvents[i].step = StepName(1)
              /\ \E i \in WfEventsOf(r, {"step:complete"}) :
                    i > e /\ wfEvents[i].step = StepName(2)

\* execute of call c has returned the TIMEOUT failure
CallTimedOut(c) ==
    pc[c] = "returned" /\ order[c] # <<>> /\ order[c][1] = "timer"

\* the retry loop of call c: its state, and whether a step moves it
RetryLoop(c) == <<loop[c], attempt[c], invocations[c], outcomes[c], sleeps[c], lastError[c]>>

\* the firing of the timer and the return of the TIMEOUT failure leave the
\* retry loop where it is
TimeoutLeavesRetryLoop ==
    \A c \in Calls :
        (\/ timer[c] = "armed" /\ timer'[c] = "fired"
         \/ pc[c] = "racing" /\ pc'[c] = "returned" /\ order[c][1] = "timer") =>
            RetryLoop(c)' = RetryLoop(c)

\* a step of the retry loop of a call that has timed out emits no event and
\* leaves the result alone; such a loop sleeps and starts attempts as before
LateAttemptsSilent ==
    \A c \in Calls :
        CallTimedOut(c) =>
            /\ pc'[c] = "returned" /\ result'[c] = result[c]
            /\ RetryLoop(c)' # RetryLoop(c) =>
                  /\ agentEvents' = agentEvents
                  /\ \A d \in Calls : result'[d] = result[d] /\ pc'[d] = pc[d]
            /\ \A i \in DOMAIN agentEvents' :
                  i > Len(agentEvents) => agentEvents'[i].call # c
            /\ invocations'[c] > invocations[c] =>
                  /\ invocations'[c] = invocations[c] + 1
                  /\ invocations'[c] <= retry.maxAttempts
                  /\ loop'[c] = "running"
            /\ Len(sleeps'[c]) > Len(sleeps[c]) =>
                  /\ loop'[c] = "sleeping"
                  /\ sleeps'[c] = Append(sleeps[c], calculateRetryDelay(attempt[c], retry))

\* C36: after BaseAgent.execute has returned TIMEOUT the retry loop is not
\* cancelled: it still sleeps and starts further attempts of the work
\* function, at most maxAttempts in total, and none of these late attempts
\* emits an agent event or changes the result already returned.
AbandonedRetryLoop ==
    /\ [](\A c \in Calls :
            CallTimedOut(c) =>
               /\ result[c] = FailureResult(TimeoutError)
               /\ invocations[c] <= retry.maxAttempts
               /\ Cardinality(EventsOf(c, {"agent:complete", "agent:error"})) = 1)
    /\ [][TimeoutLeavesRetryLoop /\ LateAttemptsSilent]_vars

\* a call that returned TIMEOUT with its retry loop still running: the loop
\* has slept twice and its third attempt is awaited
AbandonedRetryLoopWitness ==
    \E c \in Calls :
        /\ CallTimedOut(c) /\ order[c] = <<"timer">>
        /\ loop[c] = "running" /\ invocations[c] = 3 /\ Len(sleeps[c]) = 2

\* C37: under onError = 'continue', when the step loop has finished before
\* the timer the result execute returns is {success: true} with no error and
\* the run has emitted workflow:complete and no workflow:error, however many
\* steps failed; the failures are in the steps list only.
FinalSuccessUnderContinue ==
    \A r \in Runs :
        (onError = "continue" /\ wfPc[r] \in {"returned", "rejected"}
           /\ wfOrder[r] # <<>> /\ wfOrder[r][1] = "work") =>
            /\ wfPc[r] = "returned"
            /\ wfResult[r].success /\ wfResult[r].error = NoError
            /\ WfEventsOf(r, {"workflow:complete"}) # {}
            /\ WfEventsOf(r, {"workflow:error"}) = {}

\* the calls of a condition that threw
ThrowingConditions(log) ==
    {k \in DOMAIN log : log[k].fn = "condition" /\ log[k].out = "threw"}

\* C38: when the condition of step i throws, the handler of step i is never
\* called, the step's onError hook (if it has one) is the next call, and once
\* the hook has settled step:error of the step has been emitted, the failing
\* StepResult with the thrown error is the i-th of the run and the failure
\* strategy has been applied (stop: the loop is rejected with that error,
\* rollback: rollback is called, continue: the loop has moved on); the loop
\* resumes from a throwing condition exactly as from a throwing handler.
ConditionFailureIsStepFailure ==
    \A r \in Runs :
        LET log == wfCalls[r]
        IN  /\ \A k \in ThrowingConditions(log) :
                  LET i == log[k].step
                      over == \/ ~loopSteps[r][i].onError
                              \/ \E h \in HookCalls(log, i) : log[h].out # "pending"
                  IN  /\ HandlerCalls(log, i) = {}
                      /\ loopSteps[r][i].onError =>
                            /\ k < Len(log)
                            /\ log[k + 1].fn = "hook" /\ log[k + 1].step = i
                            /\ log[k + 1].data = log[k].data
                      /\ over =>
                            /\ \E e \in WfEventsOf(r, {"step:error"}) :
                                  wfEvents[e].step = loopSteps[r][i].name
                            /\ i \in DOMAIN stepResults[r]
                            /\ stepResults[r][i] =
                                  StepResult(loopSteps[r][i].name, FALSE, "none", log[k].error)
                            /\ onError = "stop" =>
                                  phase[r] = "rejected" /\ loopError[r] = log[k].error
                            /\ onError = "rollback" =>
                                  \E j \in DOMAIN log : j > k /\ log[j].fn = "rollback"
                            /\ onError = "continue" => idx[r] > i
            /\ (phase[r] = "condition" /\ wfPc[r] = "racing") =>
                  Settle(r, Machine(r), Throws(PlainError)) =
                      Settle(r, [Machine(r) EXCEPT !.phase = "handler"], Throws(PlainError))

(***************************************************************************)
(* BaseAgent: two execute calls on one initialized agent                   *)
(***************************************************************************)
\* an agent the caller has initialized, with listeners registered; the
\* caller makes two execute calls without awaiting the first
ConcurrentInit ==
    /\ initialized = TRUE
    /\ retry = RetryConfig(2, 100, "linear", Undefined)
    /\ agentThrowOn \in {{}, {"agent:complete"}, {"agent:error"}}
    /\ agentEvents = <<Event("agent:start", 0)>>
    /\ inits = 1
    /\ callers = Calls
    /\ CallInit
    /\ delayIn = DelayIdle
    /\ delayOut = Undefined
    /\ WorkflowUnused
    /\ NoCopies

ConcurrentNext ==
    \/ \E c \in Calls, in \in Inputs : Execute(c, in)
    \/ \E c \in Calls : WorkSettles(c)
    \/ \E c \in Calls : SleepEnds(c)
    \/ \E c \in Calls : TimerFires(c)
    \/ \E c \in Calls : ResumeAfterRace(c)

ConcurrentSpec == ConcurrentInit /\ [][ConcurrentNext]_vars

\* everything one execute call holds: its arguments, its context, the locals
\* of its retry loop, its timer and its outcome
CallState(c) ==
    <<pc[c], input[c], contextArg[c], executionContext[c], attempt[c], invocations[c],
      outcomes[c], lastError[c], loop[c], loopResult[c], sleeps[c], timer[c], order[c],
      caught[c], result[c], rejection[c]>>

\* the events call c emitted, in order
EventsOfCall(c) == SelectSeq(agentEvents, LAMBDA e : e.call = c)

\* executeWithRetry run alone over the outcomes outs of its work function
LoopAlone(outs) ==
    LET last == IF outs = <<>> THEN ThrowOutcome(NoError) ELSE outs[Len(outs)]
    IN  IF last.ok THEN [loop |-> "resolved", settled |-> Settled(last.value, NoError)]
        ELSE IF Len(outs) >= retry.maxAttempts
             THEN [loop |-> "rejected",
                   settled |-> Settled("none", ExhaustionError(last.error))]
             ELSE [loop |-> "pending", settled |-> NotSettled]

\* what execute comes to when call c is the only call of the agent, given its
\* input, what its work function did and which of loop and timer came first
ExecuteAlone(c) ==
    IF validateInputThrows(input[c]) THEN CatchBlock(c, InvalidInputError)
    ELSE IF RaceWinner(order[c]) = "timer" THEN CatchBlock(c, TimeoutError)
    ELSE IF LoopAlone(outcomes[c]).loop = "resolved"
         THEN TryBlockEnd(c, LoopAlone(outcomes[c]).settled.data)
         ELSE CatchBlock(c, LoopAlone(outcomes[c]).settled.error)

\* each call is what it is alone: its own context, its own retry counter and
\* delays, its own result and terminal events
CallAsAlone(c) ==
    /\ pc[c] # "idle" =>
          /\ executionContext[c] = AgentContext(c, input[c], contextArg[c])
          /\ invocations[c] <= retry.maxAttempts
          /\ invocations[c] = Len(outcomes[c]) + (IF loop[c] = "running" THEN 1 ELSE 0)
          /\ sleeps[c] = [k \in 1..Len(sleeps[c]) |-> calculateRetryDelay(k, retry)]
          /\ loop[c] \in {"resolved", "rejected"} =>
                /\ loop[c] = LoopAlone(outcomes[c]).loop
                /\ loopResult[c] = LoopAlone(outcomes[c]).settled
    /\ IF pc[c] \in {"returned", "rejected"}
       THEN /\ pc[c] = ExecuteAlone(c).pc
            /\ result[c] = ExecuteAlone(c).result
            /\ rejection[c] = ExecuteAlone(c).rejection
            /\ EventsOfCall(c) = ExecuteAlone(c).emits
            /\ agentThrowOn = {} =>
                  /\ pc[c] = "returned"
                  /\ Len(EventsOfCall(c)) = 1
                  /\ EventsOfCall(c)[1].type =
                        (IF result[c].success THEN "agent:complete" ELSE "agent:error")
       ELSE EventsOfCall(c) = <<>> /\ result[c] = NoResult

\* a step belongs to one call: it leaves the other call, the events of the
\* other call and the agent's configuration as they are
StepOfOneCall ==
    /\ <<initialized, retry, agentThrowOn>>' = <<initialized, retry, agentThrowOn>>
    /\ \A c, d \in Calls :
          (c # d /\ CallState(c)' # CallState(c)) =>
              /\ CallState(d)' = CallState(d)
              /\ EventsOfCall(d)' = EventsOfCall(d)

\* C40: two execute calls on one initialized BaseAgent are independent under
\* every interleaving: each has its own context, retry counter, delays and
\* timer, each returns (or rejects with) what it comes to when run alone on
\* the same input with the same behaviour of its work function and timer, and
\* each emits its own terminal events and no other.
ConcurrentCallsIndependent ==
    /\ [](\A c \in Calls : CallAsAlone(c))
    /\ [][StepOfOneCall]_vars

\* both calls in flight at once, each with its own counter and timer: call 1
\* timed out during its second attempt, call 2 is at its first with its timer
\* armed; and call 1 has returned TIMEOUT while call 2 is still racing
ConcurrentCallsIndependentWitness ==
    /\ pc[1] = "returned" /\ result[1] = FailureResult(TimeoutError)
    /\ invocations[1] = 2 /\ loop[1] = "running" /\ timer[1] = "fired"
    /\ pc[2] = "racing" /\ invocations[2] = 1 /\ loop[2] = "running"
    /\ timer[2] = "armed" /\ order[2] = <<>>

==============================================================================
